---- MODULE Spec2Model ----
(***************************************************************************)
(* A model of the windowed TFTP transfer engines of rust-tftp:             *)
(*   src/src/send.rs     SendFile    (the sending engine)                  *)
(*   src/src/receive.rs  ReceiveFile (the receiving engine)                *)
(*   src/src/header.rs   the wire codec                                    *)
(* The two engines exchange datagrams over UDP, modelled as two sets of    *)
(* datagrams in flight.  A receive takes any datagram of the set           *)
(* (reordering) and leaves it there, since UDP may deliver it again        *)
(* (duplication); a datagram that is never taken is a lost one, and a read *)
(* may time out whatever is in flight (loss, delay).                       *)
(*                                                                         *)
(* Representation of files.  The sender only ever transmits slices of its  *)
(* read-only mapping: DATA(bn, n) carries the source bytes                 *)
(* [bn*512, bn*512+n).  The destination mapping is therefore kept as its   *)
(* length and, for every 512-byte slot k, the number data[k] of leading    *)
(* bytes of the slot that hold the source's bytes; every other byte is     *)
(* zero (the pad byte, or the zero fill of File::set_len).  Source bytes   *)
(* are taken to be non-zero, so a slot that was never written differs      *)
(* from the source.                                                        *)
(***************************************************************************)
EXTENDS Integers, Sequences, FiniteSets, TLC

\* src/src/header.rs:304
MAX_DATA_LEN == 512
\* src/src/client.rs:17
MAX_ATTEMPTS == 4

\* Bounds of the model: whole blocks in the source file of a transfer
\* between the two engines, the window_size arguments, and whole blocks in
\* the source file when the receiving engine faces an arbitrary peer.
MaxFull == 2
MaxWindow == 2
PeerMaxFull == 3
\* Bounds of the codec's inputs: characters in a filename or an error message,
\* and bytes in a short DATA payload.
MaxStrLen == 2
MaxPayloadLen == 2

\* Durations are numbers of nanoseconds; Duration::from_secs(1) and
\* Duration::new(1, 0) are NANOS_PER_SEC (send.rs:109, receive.rs:73).
NANOS_PER_SEC == 1000000000

Min(a, b) == IF a < b THEN a ELSE b
Max(a, b) == IF a > b THEN a ELSE b
Unwrap(o) == CHOOSE x \in o : TRUE

\* Source file lengths: k whole blocks, and k whole blocks plus one byte.
Lens(n) == {k * MAX_DATA_LEN + r : k \in 0..n, r \in {0, 1}}
FileLens == Lens(MaxFull)
PeerFileLens == Lens(PeerMaxFull)
\* window_size arguments: 0, the small windows, and one above every cap.
WindowSizes == (0..MaxWindow) \cup {257}
Roles == {"client", "server"}
Slots == 0..(Max(MaxFull, PeerMaxFull) + 1)

VARIABLES
    \* ---- SendFile (send.rs:47-87)
    s_pc,                 \* "new", "run", "ready" (Async::Ready), "err", "panic"
    file_len,
    window_size,          \* the window_size argument of new / new_server
    role,                 \* "client": SendFile::new, "server": new_server
    num_blocks,
    blocks_pending_acks,
    next_to_send,
    timeout_pq,           \* BlockData entries, oldest first (top = last)
    send_times,           \* the keys of the send_times map
    timeouts,
    s_sock,               \* Option: a datagram at the head of the sender's socket
                          \* that is not a TFTP packet of the peer: [from, bytes]
    \* ---- ReceiveFile (receive.rs:21-51)
    r_pc,                 \* "new", "run", "ready", "err", "panic"
    file_map,             \* [len, data]: see the module comment
    highest_block,        \* Option<usize>: {} is None, {n} is Some(n)
    received_last_block,
    received,
    consec_recv,          \* Option<usize>
    error_count,
    r_sock,               \* Option: the same for the receiver's socket
    \* ---- UDP datagrams in flight
    to_receiver,
    to_sender,
    \* ---- history (observation only)
    data_sent,            \* every DATA packet the sender has transmitted
    s_log,                \* the datagrams of the sender's latest construction or read step, in order
    resent,               \* blocks that get_timeout has handed out for retransmission
    acks_handled,         \* block numbers handle_ack has been called with
    init_reads,           \* receive_header calls made by SendFile::init
    final_acks,           \* copies of the receiver's final ACK handled (up to 4)
    s_event,              \* the input of the sender's latest poll
    s_err,                \* Option: the io::Error the sender returned
    written,              \* blocks whose payload was copied into file_map
    r_event,              \* the input of the receiver's latest poll
    r_err,                \* Option: the io::Error the receiver returned
    ack_last,             \* Option: block number of the latest ACK sent
    ack_kind,             \* "none", "init", "cumulative", "final"
    ack_decreased,        \* an ACK was sent below the one before it
    \* ---- sends that fail (header.rs:88-100)
    send_fails,           \* the receiver's host may fail to send (send_to returns Err)
    error_sends,          \* the sends of ERROR that fail made: TRUE for one that succeeded
    \* ---- the round-trip estimates (send.rs:83, receive.rs:47), in nanoseconds
    average_rtt,          \* SendFile::average_rtt
    packet_time,          \* ReceiveFile::packet_time
    elapsed,              \* the sample of the latest update: Instant::elapsed()
    samples,              \* the number of updates made
    \* ---- history of the receiver's construction
    init_acks,            \* the ACK(0) that ReceiveFile::init has sent
    \* ---- the wire codec (header.rs)
    c_pc,                 \* "header", "raw", "decoded"
    c_header,             \* the header value that is encoded
    c_raw,                \* its bytes on the wire
    c_decoded,            \* what decoding the bytes gives
    debug_assertions,     \* the build keeps debug_assert! (a debug build)
    \* ---- SendFile on a file near the size limit (send.rs:90-95, 204-214)
    l_pc,                 \* "new", "ok" (Ok(SendFile)), "err"
    l_len,                \* file_len as [q, r]: file_len = q * 512 + r
    l_next,               \* next_to_send
    l_sent,               \* blocks handed to SendData: [index, pkt]
    \* ---- the server loop (example-tftp-app/src/main.rs:98-129)
    srv_pc,               \* "loop", "panic"
    srv_queue,            \* datagrams waiting in the server's socket, oldest first
    srv_served,           \* read requests handed to handle_read_request
    srv_event             \* what the latest iteration of the loop did

svars == <<s_pc, file_len, window_size, role, s_sock, num_blocks, blocks_pending_acks,
           next_to_send, timeout_pq, send_times, timeouts>>
rvars == <<r_pc, file_map, highest_block, received_last_block, received,
           consec_recv, error_count, r_sock>>
nvars == <<to_receiver, to_sender>>
shist == <<data_sent, s_log, resent, acks_handled, final_acks, init_reads, s_event, s_err>>
rhist == <<written, r_event, r_err, ack_last, ack_kind, ack_decreased>>
cvars == <<c_pc, c_header, c_raw, c_decoded, debug_assertions>>
lvars == <<l_pc, l_len, l_next, l_sent>>
srvvars == <<srv_pc, srv_queue, srv_served, srv_event>>
fvars == <<send_fails, error_sends>>
tvars == <<average_rtt, packet_time, elapsed, samples>>
ivars == <<init_acks>>
vars == <<svars, rvars, nvars, shist, rhist, cvars, lvars, srvvars, fvars, tvars, ivars>>

RECURSIVE BitAnd(_, _)
BitAnd(a, b) ==
    IF a = 0 \/ b = 0 THEN 0
    ELSE (a % 2) * (b % 2) + 2 * BitAnd(a \div 2, b \div 2)

\* The 24-bit block number field of DATA and ACK (header.rs:381, 431-433).
Wire24(bn) == bn % 16777216

DataPkt(bn, len) == [type |-> "DATA", block_number |-> Wire24(bn), data_len |-> len]
AckPkt(bn) == [type |-> "ACK", block_number |-> Wire24(bn)]
ErrorPkt(msg) == [type |-> "ERROR", msg |-> msg]

\* io::Error::new(kind, text); a formatted text is the sequence of its parts.
IoError(kind, text) == [kind |-> kind, text |-> text]
\* The kinds with which a read whose timeout expired fails: TimedOut on
\* some platforms, WouldBlock on others.
ReadTimeoutKinds == {"TimedOut", "WouldBlock"}
\* Header::send, header.rs:88-100: the errors of a send that fails.
SendErrors ==
    {IoError("ConnectionRefused", <<"send_to">>),
     IoError("Other", <<"Failed to send all data in one UDP packet.">>)}

(***************************************************************************)
(* SendFile                                                                *)
(***************************************************************************)

\* send.rs:95
NumBlocks(len) ==
    len \div MAX_DATA_LEN + (IF BitAnd(len, MAX_DATA_LEN - 1) = 0 THEN 0 ELSE 1)

\* memmap refuses to map an empty file (see receive.rs:60).
MmapOk(len) == len > 0

\* send.rs:93: file_len > (1 << 24) * MAX_DATA_LEN for
\* file_len = q * MAX_DATA_LEN + r, written so that no intermediate value
\* exceeds TLC's 32-bit integers.
TooLargeOf(q, r) ==
    \/ q > 16777216
    \/ q = 16777216 /\ r > 0

TooLarge(len) == TooLargeOf(len \div MAX_DATA_LEN, len % MAX_DATA_LEN)

\* The mutable part of SendFile that the helpers below transform.
SenderState ==
    [blocks_pending_acks |-> blocks_pending_acks, next_to_send |-> next_to_send,
     timeout_pq |-> timeout_pq, send_times |-> send_times,
     net |-> to_receiver, data_sent |-> data_sent, num_blocks |-> num_blocks,
     log |-> <<>>, resent |-> resent]

get_block_n(s, bn) ==
    IF bn >= s.num_blocks THEN {}
    ELSE IF bn = s.num_blocks - 1
         THEN {DataPkt(bn, Min(file_len - bn * MAX_DATA_LEN, MAX_DATA_LEN))}
         ELSE {DataPkt(bn, MAX_DATA_LEN)}

\* next_to_send grows by one on every call; past num_blocks every call
\* returns None, so the counter is kept at num_blocks + 1 from there on.
next_block(s) ==
    LET n == s.next_to_send
    IN [st |-> [s EXCEPT !.next_to_send = IF n > s.num_blocks THEN n ELSE n + 1],
        blk |-> IF n < s.num_blocks THEN get_block_n(s, n)
                ELSE IF n = s.num_blocks /\ file_len \div MAX_DATA_LEN = s.num_blocks
                     THEN {DataPkt(n, 0)}
                     ELSE {}]

\* SendData::poll succeeds (UDP send_to); the block is queued for timeout.
send_data(s, d) ==
    [s EXCEPT !.timeout_pq = Append(@, d.block_number),
              !.send_times = @ \cup {d.block_number},
              !.net = @ \cup {d},
              !.data_sent = @ \cup {d},
              !.log = Append(@, d)]

send_next_block(s) ==
    LET r == next_block(s)
    IN IF r.blk # {} THEN send_data(r.st, Unwrap(r.blk)) ELSE r.st

\* The loop runs until next_block returns None, whatever the window is.
RECURSIVE send_window_whole(_, _)
send_window_whole(s, k) ==
    LET r == next_block(s)
    IN IF r.blk = {} THEN r.st
       ELSE send_window_whole(send_data(r.st, Unwrap(r.blk)), k)

\* The loop `for _ in 0..window_size` of init and server_init.
RECURSIVE send_window(_, _)
send_window(s, k) ==
    IF k = 0 THEN s
    ELSE LET r == next_block(s)
         IN IF r.blk = {} THEN r.st
            ELSE send_window(send_data(r.st, Unwrap(r.blk)), k - 1)

\* A second ACK for a block puts the block back into the pending set.
handle_ack_reopens(s, bn) ==
    IF bn \in s.send_times
    THEN [s EXCEPT !.blocks_pending_acks = @ \ {bn}, !.send_times = @ \ {bn}]
    ELSE [s EXCEPT !.blocks_pending_acks = @ \cup {bn}]

\* send.rs:237-245
handle_ack(s, bn) ==
    [s EXCEPT !.blocks_pending_acks = @ \ {bn}, !.send_times = @ \ {bn}]

\* Entries of acknowledged blocks on top of the heap are discarded.
RECURSIVE drop_acked(_, _)
drop_acked(pq, pending) ==
    IF pq = <<>> THEN pq
    ELSE IF pq[Len(pq)] \in pending THEN pq
         ELSE drop_acked(SubSeq(pq, 1, Len(pq) - 1), pending)

\* The heap is ordered by time_sent, so its top is the latest entry.
\* expired: time_sent.elapsed() > average_rtt * 3 for the top pending entry.
get_timeout(s, expired) ==
    LET pq == drop_acked(s.timeout_pq, s.blocks_pending_acks)
    IN IF pq # <<>> /\ expired
       THEN [st |-> [s EXCEPT !.timeout_pq = SubSeq(pq, 1, Len(pq) - 1)],
             blk |-> get_block_n(s, pq[Len(pq)])]
       ELSE [st |-> [s EXCEPT !.timeout_pq = pq], blk |-> {}]

\* send.rs:318
resend_timeout(s, expired) ==
    LET r == get_timeout(s, expired)
    IN IF r.blk # {}
       THEN send_data([r.st EXCEPT !.resent = @ \cup {Unwrap(r.blk).block_number}],
                      Unwrap(r.blk))
       ELSE r.st

SetSender(s) ==
    /\ blocks_pending_acks' = s.blocks_pending_acks
    /\ next_to_send' = s.next_to_send
    /\ timeout_pq' = s.timeout_pq
    /\ send_times' = s.send_times
    /\ data_sent' = s.data_sent
    /\ s_log' = s.log
    /\ resent' = s.resent

Fresh(len) ==
    [blocks_pending_acks |-> 0..(NumBlocks(len) - 1), next_to_send |-> 0,
     timeout_pq |-> <<>>, send_times |-> {}, net |-> to_receiver,
     data_sent |-> data_sent, num_blocks |-> NumBlocks(len), log |-> <<>>,
     resent |-> {}]

\* new / new_server: the mapping or the size check fails.
SendNewFail ==
    /\ s_pc = "new"
    /\ ~MmapOk(file_len) \/ TooLarge(file_len)
    /\ s_pc' = "err"
    /\ s_err' = IF ~MmapOk(file_len)
                THEN {IoError("InvalidInput", <<"memory map must have a non-zero length">>)}
                ELSE {IoError("Other", <<"Files greater than 8GB in size cannot be sent.">>)}
    /\ UNCHANGED <<file_len, window_size, role, s_sock, num_blocks, blocks_pending_acks,
                   next_to_send, timeout_pq, send_times, timeouts>>
    /\ UNCHANGED <<data_sent, s_log, resent, acks_handled, final_acks, init_reads, s_event>>
    /\ UNCHANGED <<rvars, nvars, rhist>>
    /\ UNCHANGED <<cvars, lvars, srvvars, fvars, tvars, ivars>>

\* new_server + server_init: ACK(0), then the first window.
SendNewServer ==
    /\ s_pc = "new" /\ role = "server"
    /\ MmapOk(file_len) /\ ~TooLarge(file_len)
    /\ num_blocks' = NumBlocks(file_len)
    /\ LET s0 == Fresh(file_len)
           s1 == [s0 EXCEPT !.net = @ \cup {AckPkt(0)}, !.log = Append(@, AckPkt(0))]
           s == send_window(s1, window_size)
       IN /\ SetSender(s)
          /\ to_receiver' = s.net
    /\ s_pc' = "run"
    /\ UNCHANGED <<file_len, window_size, role, s_sock, timeouts, to_sender,
                   acks_handled, final_acks, init_reads, s_event, s_err>>
    /\ UNCHANGED <<rvars, rhist>>
    /\ UNCHANGED <<cvars, lvars, srvvars, fvars, tvars, ivars>>

\* new + init: one receive_header call that yields an ACK, then the window.
SendNewClient ==
    /\ s_pc = "new" /\ role = "client"
    /\ MmapOk(file_len) /\ ~TooLarge(file_len)
    /\ \E m \in to_sender : m.type = "ACK"
    /\ UNCHANGED to_sender
    /\ num_blocks' = NumBlocks(file_len)
    /\ LET s == send_window(Fresh(file_len), window_size)
       IN /\ SetSender(s)
          /\ to_receiver' = s.net
    /\ s_pc' = "run"
    /\ init_reads' = 1
    /\ UNCHANGED <<file_len, window_size, role, s_sock, timeouts, acks_handled, final_acks,
                   s_event, s_err>>
    /\ UNCHANGED <<rvars, rhist>>
    /\ UNCHANGED <<cvars, lvars, srvvars, fvars, tvars, ivars>>

\* new + init: the one receive_header call yields anything but an ACK.
SendNewClientNoAck ==
    /\ s_pc = "new" /\ role = "client"
    /\ MmapOk(file_len) /\ ~TooLarge(file_len)
    /\ num_blocks' = NumBlocks(file_len)
    /\ SetSender(Fresh(file_len))
    /\ s_pc' = "err"
    /\ s_err' = {IoError("InvalidData", <<"Did not receive an ACK for the write request.">>)}
    /\ init_reads' = 1
    /\ UNCHANGED <<file_len, window_size, role, s_sock, timeouts, acks_handled, final_acks,
                   s_event>>
    /\ UNCHANGED <<rvars, nvars, rhist>>
    /\ UNCHANGED <<cvars, lvars, srvvars, fvars, tvars, ivars>>

\* m is a copy of the ACK that the receiver sent four times before it
\* returned Ready (receive.rs:246-252).
IsFinalAck(m) ==
    /\ r_pc = "ready"
    /\ ack_kind = "final"
    /\ m = AckPkt(Unwrap(ack_last))

\* poll, send.rs:315-316
SendPollReady ==
    /\ s_pc = "run"
    /\ blocks_pending_acks = {}
    /\ s_pc' = "ready"
    /\ UNCHANGED <<file_len, window_size, role, s_sock, num_blocks, blocks_pending_acks,
                   next_to_send, timeout_pq, send_times, timeouts>>
    /\ UNCHANGED <<rvars, nvars, shist, rhist>>
    /\ UNCHANGED <<cvars, lvars, srvvars, fvars, tvars, ivars>>

\* poll, send.rs:318-344: an ACK is received.
SendPollAck ==
    /\ s_pc = "run"
    /\ blocks_pending_acks # {}
    /\ s_sock = {}
    /\ \E expired \in BOOLEAN, m \in to_sender :
          /\ m.type = "ACK"
          /\ LET s1 == resend_timeout(SenderState, expired)
                 s == send_next_block(handle_ack(s1, m.block_number))
             IN /\ SetSender(s)
                /\ to_receiver' = s.net
          /\ UNCHANGED to_sender
          /\ acks_handled' = acks_handled \cup {m.block_number}
          /\ UNCHANGED init_reads
          /\ final_acks' = IF IsFinalAck(m) THEN Min(final_acks + 1, 4) ELSE final_acks
          /\ s_event' = m
    /\ timeouts' = 0
    /\ UNCHANGED <<s_pc, file_len, window_size, role, s_sock, num_blocks, s_err>>
    /\ UNCHANGED <<rvars, rhist>>
    /\ UNCHANGED <<cvars, lvars, srvvars, fvars, tvars, ivars>>

\* The peer's message is replaced by a fixed text.
handle_error_generic(err_header) == IoError("Other", <<"Received an error from the peer.">>)

\* send.rs:274-276
handle_error(err_header) == IoError("Other", <<err_header.msg>>)

\* poll, send.rs:346: an ERROR is received.
SendPollError ==
    /\ s_pc = "run"
    /\ blocks_pending_acks # {}
    /\ s_sock = {}
    /\ \E expired \in BOOLEAN, m \in to_sender :
          /\ m.type = "ERROR"
          /\ LET s == resend_timeout(SenderState, expired)
             IN /\ SetSender(s)
                /\ to_receiver' = s.net
          /\ UNCHANGED to_sender
          /\ s_event' = m
          /\ s_err' = {handle_error(m)}
    /\ timeouts' = 0
    /\ s_pc' = "err"
    /\ UNCHANGED <<file_len, window_size, role, s_sock, num_blocks, acks_handled, final_acks, init_reads>>
    /\ UNCHANGED <<rvars, rhist>>
    /\ UNCHANGED <<cvars, lvars, srvvars, fvars, tvars, ivars>>

\* poll, send.rs:352-372: the read fails with a kind outside the fatal list
\* (the binding pattern `Timeout` catches every one of them).
SendPollTimeout ==
    /\ s_pc = "run"
    /\ blocks_pending_acks # {}
    /\ s_sock = {}
    /\ \E expired \in BOOLEAN :
          LET s == resend_timeout(SenderState, expired)
          IN /\ SetSender(s)
             /\ to_receiver' = s.net
    /\ timeouts' = timeouts + 1
    /\ IF timeouts + 1 > MAX_ATTEMPTS
       THEN /\ s_pc' = "err"
            /\ \E k \in ReadTimeoutKinds : s_err' = {IoError(k, <<"read timed out">>)}
       ELSE /\ s_pc' = "run"
            /\ UNCHANGED s_err
    /\ s_event' = [type |-> "TIMEOUT"]
    /\ UNCHANGED <<file_len, window_size, role, s_sock, num_blocks, to_sender, acks_handled,
                   final_acks, init_reads>>
    /\ UNCHANGED <<rvars, rhist>>
    /\ UNCHANGED <<cvars, lvars, srvvars, fvars, tvars, ivars>>

(***************************************************************************)
(* ReceiveFile                                                             *)
(***************************************************************************)

\* File::set_len: truncation drops bytes, extension fills with zeros.
set_len(fm, n) ==
    [len |-> n,
     data |-> [k \in Slots |-> Min(fm.data[k], Max(0, n - k * MAX_DATA_LEN))]]

\* file_map[start..start+n].copy_from_slice(payload)
write_block(fm, bn, n) == [fm EXCEPT !.data[bn] = Max(@, n)]

\* send_ack: the ACK goes out, and is recorded.
send_ack(bn, kind) ==
    /\ ack_last' = {bn}
    /\ ack_kind' = kind
    /\ ack_decreased' = (ack_decreased \/ (ack_last # {} /\ bn < Unwrap(ack_last)))

\* A walk that jumps over gaps, to the largest index received.
walk_over_gaps(c, rec) == IF rec = {} THEN c ELSE Max(c, CHOOSE x \in rec : \A y \in rec : y <= x)

\* poll, receive.rs:228-236: the loop that advances consec_recv.
RECURSIVE walk(_, _)
walk(c, rec) == IF (c + 1) \in rec THEN walk(c + 1, rec) ELSE c

\* poll, receive.rs:220-238
update_consec(c, rec) ==
    LET c0 == IF c = {} /\ 0 \in rec THEN {0} ELSE c
    IN IF c0 # {} THEN {walk(Unwrap(c0), rec)} ELSE c0

\* poll, receive.rs:240-246
contains_all ==
    /\ received_last_block
    /\ \A i \in 0..(Unwrap(highest_block) - 1) : i \in received

\* A handle_data that resizes for the first block only.
resize_needed_first_only(hb, bn, new_len) ==
    hb = {}

\* handle_data, receive.rs:104-127: when the file is resized and remapped.
resize_needed(hb, bn, new_len) ==
    \/ hb = {}
    \/ Unwrap(hb) < bn
    \/ file_map.len < new_len

\* new, receive.rs:59-77, which ends with r.init(), receive.rs:86-89: the
\* pad byte, the mapping, ACK(0).
RecvNew ==
    /\ r_pc = "new"
    /\ r_pc' = "run"
    /\ file_map' = [len |-> 1, data |-> [k \in Slots |-> 0]]
    /\ to_sender' = to_sender \cup {AckPkt(0)}
    /\ send_ack(0, "init")
    /\ init_acks' = init_acks + 1
    /\ UNCHANGED <<highest_block, received_last_block, received, consec_recv,
                   error_count, to_receiver, written, r_event, r_err>>
    /\ UNCHANGED r_sock
    /\ UNCHANGED <<svars, shist>>
    /\ UNCHANGED <<cvars, lvars, srvvars, fvars, tvars>>

\* receive, receive.rs:54-57: new, which has called init, and then init
\* once more on the value new returned.
RecvReceive ==
    /\ r_pc = "new"
    /\ r_pc' = "run"
    /\ file_map' = [len |-> 1, data |-> [k \in Slots |-> 0]]
    /\ to_sender' = to_sender \cup {AckPkt(0)}
    /\ send_ack(0, "init")
    /\ init_acks' = (init_acks + 1) + 1
    /\ UNCHANGED <<highest_block, received_last_block, received, consec_recv,
                   error_count, to_receiver, written, r_event, r_err>>
    /\ UNCHANGED r_sock
    /\ UNCHANGED <<svars, shist>>
    /\ UNCHANGED <<cvars, lvars, srvvars, fvars, tvars>>

\* poll, receive.rs:240-253: four final ACKs, then Ready.  When one of
\* the sends fails, the ? of receive.rs:249 returns its error.
RecvPollReady ==
    /\ r_pc = "run"
    /\ contains_all
    /\ consec_recv' = update_consec(consec_recv, received)
    /\ \/ /\ to_sender' = to_sender \cup {AckPkt(Unwrap(highest_block))}
          /\ send_ack(Unwrap(highest_block), "final")
          /\ r_pc' = "ready"
          /\ UNCHANGED r_err
       \/ /\ send_fails
          /\ r_pc' = "err"
          /\ \E e \in SendErrors : r_err' = {e}
          /\ \/ UNCHANGED <<to_sender, ack_last, ack_kind, ack_decreased>>
             \/ /\ to_sender' = to_sender \cup {AckPkt(Unwrap(highest_block))}
                /\ send_ack(Unwrap(highest_block), "final")
    /\ r_event' = [type |-> "NONE"]
    /\ UNCHANGED <<file_map, highest_block, received_last_block, received,
                   error_count, to_receiver, written>>
    /\ UNCHANGED r_sock
    /\ UNCHANGED <<svars, shist>>
    /\ UNCHANGED <<cvars, lvars, srvvars, fvars, tvars, ivars>>

\* The number of sends of ERROR that fail before one succeeds.
FailedSends == IF send_fails THEN 0..MAX_ATTEMPTS ELSE {0}

\* A fail that goes through all its attempts, whatever a send returns.
RecvFail_all_attempts(net, err) ==
    \E k \in FailedSends :
        /\ error_sends' = [i \in 1..MAX_ATTEMPTS |-> i > k]
        /\ to_sender' = IF k < MAX_ATTEMPTS THEN net \cup {ErrorPkt("Giving up")} ELSE net
        /\ r_pc' = "err"
        /\ r_err' = {err}

\* fail, receive.rs:199-210: up to MAX_ATTEMPTS sends of ERROR("Giving up"),
\* until one succeeds, and Err with the error that was passed in.
RecvFail(net, err) ==
    \E k \in FailedSends :
        /\ error_sends' = [i \in 1..Min(k + 1, MAX_ATTEMPTS) |-> i > k]
        /\ to_sender' = IF k < MAX_ATTEMPTS THEN net \cup {ErrorPkt("Giving up")} ELSE net
        /\ r_pc' = "err"
        /\ r_err' = {err}

\* poll, receive.rs:255-257
RecvPollTotalTimeout ==
    /\ r_pc = "run"
    /\ ~contains_all
    /\ consec_recv' = update_consec(consec_recv, received)
    /\ RecvFail(to_sender, IoError("TimedOut", <<"TFTP connection appears to be dead.">>))
    /\ r_event' = [type |-> "TOTAL_TIMEOUT"]
    /\ UNCHANGED <<file_map, highest_block, received_last_block, received,
                   error_count, to_receiver>>
    /\ UNCHANGED <<written, ack_last, ack_kind, ack_decreased>>
    /\ UNCHANGED <<r_sock, send_fails>>
    /\ UNCHANGED <<svars, shist>>
    /\ UNCHANGED <<cvars, lvars, srvvars, tvars, ivars>>

\* poll, receive.rs:263-279 with handle_data, receive.rs:102-147
RecvPollData ==
    /\ r_pc = "run"
    /\ ~contains_all
    /\ r_sock = {}
    /\ consec_recv' = update_consec(consec_recv, received)
    /\ error_count' = 0
    /\ \E m \in to_receiver :
          /\ m.type = "DATA"
          /\ UNCHANGED to_receiver
          /\ r_event' = m
          /\ LET bn == m.block_number
                 new_len == MAX_DATA_LEN * bn + m.data_len
                 resize == resize_needed(highest_block, bn, new_len)
                 fm == IF resize THEN set_len(file_map, new_len) ELSE file_map
                 n == IF m.data_len < MAX_DATA_LEN THEN m.data_len ELSE MAX_DATA_LEN
             IN /\ highest_block' = {bn}
                /\ IF resize /\ ~MmapOk(new_len)
                   THEN \* map_mut fails: handle_data returns Err, poll fails
                        /\ file_map' = fm
                        /\ RecvFail(to_sender,
                               IoError("InvalidInput",
                                       <<"memory map must have a non-zero length">>))
                        /\ UNCHANGED <<received, received_last_block, written>>
                   ELSE /\ UNCHANGED <<r_err, error_sends>>
                        /\ received' = received \cup {bn}
                        /\ received_last_block' =
                              (received_last_block \/ m.data_len < MAX_DATA_LEN)
                        /\ UNCHANGED to_sender
                        /\ IF bn * MAX_DATA_LEN + n > fm.len
                           THEN \* slice index out of range
                                /\ r_pc' = "panic"
                                /\ file_map' = fm
                                /\ UNCHANGED written
                           ELSE /\ r_pc' = "run"
                                /\ file_map' = write_block(fm, bn, n)
                                /\ written' = written \cup {bn}
    /\ UNCHANGED <<ack_last, ack_kind, ack_decreased>>
    /\ UNCHANGED <<r_sock, send_fails>>
    /\ UNCHANGED <<svars, shist>>
    /\ UNCHANGED <<cvars, lvars, srvvars, tvars, ivars>>

\* poll, receive.rs:281-283: an ERROR is received.
RecvPollError ==
    /\ r_pc = "run"
    /\ ~contains_all
    /\ r_sock = {}
    /\ consec_recv' = update_consec(consec_recv, received)
    /\ error_count' = 0
    /\ \E m \in to_receiver :
          /\ m.type = "ERROR"
          /\ UNCHANGED to_receiver
          /\ r_event' = m
          /\ r_err' = {IoError("Other", <<"Received error from server: '", m.msg, "'">>)}
    /\ r_pc' = "err"
    /\ UNCHANGED <<file_map, highest_block, received_last_block, received,
                   to_sender>>
    /\ UNCHANGED <<written, ack_last, ack_kind, ack_decreased>>
    /\ UNCHANGED r_sock
    /\ UNCHANGED <<svars, shist>>
    /\ UNCHANGED <<cvars, lvars, srvvars, fvars, tvars, ivars>>

\* poll, receive.rs:285: a packet that is neither DATA nor ERROR.
RecvPollIgnored ==
    /\ r_pc = "run"
    /\ ~contains_all
    /\ r_sock = {}
    /\ consec_recv' = update_consec(consec_recv, received)
    /\ error_count' = 0
    /\ \E m \in to_receiver :
          /\ m.type = "ACK"
          /\ UNCHANGED to_receiver
          /\ r_event' = m
    /\ UNCHANGED <<r_pc, file_map, highest_block, received_last_block, received,
                   to_sender>>
    /\ UNCHANGED <<written, r_err, ack_last, ack_kind, ack_decreased>>
    /\ UNCHANGED r_sock
    /\ UNCHANGED <<svars, shist>>
    /\ UNCHANGED <<cvars, lvars, srvvars, fvars, tvars, ivars>>

\* poll, receive.rs:287-301: the read times out (TimedOut or WouldBlock).
\* When the send of the ACK fails, the ? of receive.rs:291 returns its
\* error, after error_count was reset at receive.rs:260.
RecvPollTimeout ==
    /\ r_pc = "run"
    /\ ~contains_all
    /\ r_sock = {}
    /\ r_event' = [type |-> "TIMEOUT"]
    /\ LET c == update_consec(consec_recv, received)
           net == IF c # {} THEN to_sender \cup {AckPkt(Unwrap(c))} ELSE to_sender
       IN /\ consec_recv' = c
          /\ \/ /\ error_count' = error_count + 1
                /\ IF c # {}
                   THEN send_ack(Unwrap(c), "cumulative")
                   ELSE UNCHANGED <<ack_last, ack_kind, ack_decreased>>
                /\ IF error_count + 1 > MAX_ATTEMPTS
                   THEN \E k \in ReadTimeoutKinds :
                            RecvFail(net, IoError(k, <<"read timed out">>))
                   ELSE /\ r_pc' = "run"
                        /\ to_sender' = net
                        /\ UNCHANGED <<r_err, error_sends>>
             \/ /\ send_fails
                /\ c # {}
                /\ error_count' = 0
                /\ r_pc' = "err"
                /\ \E e \in SendErrors : r_err' = {e}
                /\ UNCHANGED <<to_sender, ack_last, ack_kind, ack_decreased, error_sends>>
    /\ UNCHANGED <<file_map, highest_block, received_last_block, received,
                   to_receiver, written>>
    /\ UNCHANGED <<r_sock, send_fails>>
    /\ UNCHANGED <<svars, shist>>
    /\ UNCHANGED <<cvars, lvars, srvvars, tvars, ivars>>

(***************************************************************************)
(* A remote sender that is not the SendFile engine                         *)
(***************************************************************************)

\* The DATA packets of a source file of length len: 512-byte slices, and a
\* last one shorter than 512 (RFC 1350, and SendFile::next_block).
FinalBlock(len) == len \div MAX_DATA_LEN
PeerBlocks(len) ==
    {DataPkt(b, IF b < FinalBlock(len) THEN MAX_DATA_LEN ELSE len % MAX_DATA_LEN) :
        b \in 0..FinalBlock(len)}

\* A remote sender transmits (or retransmits) a block of its file.
PeerData ==
    /\ \E d \in PeerBlocks(file_len) : to_receiver' = to_receiver \cup {d}
    /\ UNCHANGED <<to_sender, svars, rvars, shist, rhist>>
    /\ UNCHANGED <<cvars, lvars, srvvars, fvars, tvars, ivars>>

\* The program at one end of the transfer gives up and tells the engine at
\* the other end (client.rs:67-69, TFTPClient::send_error, whose message is
\* "1").
PeerError ==
    /\ \/ to_receiver' = to_receiver \cup {ErrorPkt("1")} /\ UNCHANGED to_sender
       \/ to_sender' = to_sender \cup {ErrorPkt("1")} /\ UNCHANGED to_receiver
    /\ UNCHANGED <<svars, rvars, shist, rhist>>
    /\ UNCHANGED <<cvars, lvars, srvvars, fvars, tvars, ivars>>

(***************************************************************************)
(* The wire codec (header.rs).  A byte string is a sequence of 0..255;     *)
(* Rust's src[i] is At(src, i).  Decoding yields Ok(header), Err(kind) or  *)
(* a panic (an index out of range, or a failed debug_assert!).             *)
(***************************************************************************)
\* src/src/header.rs:19-23
OPCODE_RRQ == 1
OPCODE_WRQ == 2
OPCODE_DATA == 3
OPCODE_ACK == 4
OPCODE_ERROR == 5

U8(x) == x % 256
At(src, i) == src[i + 1]
Ok(h) == [tag |-> "Ok", header |-> h]
Err(e) == [tag |-> "Err", err |-> e]
Panic == [tag |-> "Panic"]

Zeros(n) == [i \in 1..n |-> 0]
\* Vec of MAX_DATA_LEN bytes holding payload, zero padded (header.rs:332-341).
Padded(payload) == payload \o Zeros(MAX_DATA_LEN - Len(payload))

AckHeader(bn) == [kind |-> "Ack", block_number |-> bn]
DataHeader(payload, bn) ==
    [kind |-> "Data", data |-> Padded(payload), data_len |-> Len(payload),
     block_number |-> bn]
RWHeader(kind, filename, mode) == [kind |-> kind, filename |-> filename, mode |-> mode]

\* impl From<u16> for ErrorCode
ErrorCodeFrom(code) == IF code < 8 THEN code ELSE 0
\* ErrorHeader::new
ErrorHeader(code, message) ==
    [kind |-> "Error", error_code |-> ErrorCodeFrom(code), error_message |-> message]

\* impl Into<&'static [u8]> for RWMode
ModeBytes(mode) ==
    CASE mode = "Mail" -> <<109, 97, 105, 108>>
      [] mode = "NetASCII" -> <<110, 101, 116, 97, 115, 99, 105, 105>>
      [] mode = "Octet" -> <<111, 99, 116, 101, 116>>

\* str::to_lowercase, on the UTF-8 bytes: only A-Z can become a letter of
\* "mail", "netascii" or "octet".
ToLower(bytes) == [i \in 1..Len(bytes) |-> IF bytes[i] \in 65..90 THEN bytes[i] + 32 ELSE bytes[i]]

\* RWMode::from_str: Some(mode) is {mode}, None is {}.
ModeFromStr(bytes) ==
    {m \in {"Mail", "NetASCII", "Octet"} : ModeBytes(m) = ToLower(bytes)}

\* String::from_utf8 accepts exactly the well-formed UTF-8 byte strings.
RECURSIVE IsUtf8(_)
IsUtf8(b) ==
    IF b = <<>> THEN TRUE
    ELSE LET n == Len(b)
             c == b[1]
             Cont(k) == k <= n /\ b[k] \in 128..191
             In(k, lo, hi) == k <= n /\ b[k] \in lo..hi
             Rest(k) == IsUtf8(SubSeq(b, k, n))
         IN IF c < 128 THEN Rest(2)
            ELSE IF c \in 194..223 THEN Cont(2) /\ Rest(3)
            ELSE IF c = 224 THEN In(2, 160, 191) /\ Cont(3) /\ Rest(4)
            ELSE IF c \in (225..236) \cup {238, 239} THEN Cont(2) /\ Cont(3) /\ Rest(4)
            ELSE IF c = 237 THEN In(2, 128, 159) /\ Cont(3) /\ Rest(4)
            ELSE IF c = 240 THEN In(2, 144, 191) /\ Cont(3) /\ Cont(4) /\ Rest(5)
            ELSE IF c \in 241..243 THEN Cont(2) /\ Cont(3) /\ Cont(4) /\ Rest(5)
            ELSE IF c = 244 THEN In(2, 128, 143) /\ Cont(3) /\ Cont(4) /\ Rest(5)
            ELSE FALSE

\* impl Into<RawRequest> for AckHeader
EncodeAck(h) ==
    <<U8(h.block_number \div 65536), OPCODE_ACK, U8(h.block_number \div 256),
      U8(h.block_number)>>

\* impl Into<RawRequest> for DataHeader
EncodeData(h) ==
    <<U8(h.block_number \div 65536), OPCODE_DATA, U8(h.block_number \div 256),
      U8(h.block_number)>> \o SubSeq(h.data, 1, h.data_len)

\* impl Into<RawRequest> for RWHeader<T>
EncodeRW(h) ==
    <<0, IF h.kind = "Read" THEN OPCODE_RRQ ELSE OPCODE_WRQ>>
        \o h.filename \o <<0>> \o ModeBytes(h.mode) \o <<0>>

\* impl Into<RawRequest> for ErrorHeader
EncodeError(h) ==
    <<0, OPCODE_ERROR, U8(h.error_code \div 256), h.error_code % 256>>
        \o h.error_message \o <<0>>

\* Header::into_raw_request
EncodeHeader(h) ==
    CASE h.kind = "Ack" -> EncodeAck(h)
      [] h.kind = "Data" -> EncodeData(h)
      [] h.kind \in {"Read", "Write"} -> EncodeRW(h)
      [] h.kind = "Error" -> EncodeError(h)

\* The 24-bit block number of DATA and ACK.
BlockNumberOf(src) == At(src, 0) * 65536 + At(src, 2) * 256 + At(src, 3)

\* AckHeader::from_raw (src[1] was read by the caller, so Len(src) >= 2)
DecodeAck(src, dbg) ==
    IF dbg /\ At(src, 0) # 0 THEN Panic
    ELSE IF Len(src) < 4 THEN Err("InvalidHeaderLen")
    ELSE Ok(AckHeader(BlockNumberOf(src)))

\* DataHeader::from_raw
DecodeData(src, dbg) ==
    IF Len(src) < 4 THEN Err("InvalidHeaderLen")
    ELSE Ok([kind |-> "Data",
             data |-> Padded(SubSeq(src, 5, Min(MAX_DATA_LEN + 4, Len(src)))),
             data_len |-> Len(src) - 4,
             block_number |-> BlockNumberOf(src)])

\* RWHeader::from_raw, the filename loop (header.rs:228-239): i < Len(src).
RECURSIVE rw_filename(_, _, _)
rw_filename(src, i, acc) ==
    IF At(src, i) = 0 THEN [tag |-> "Ok", i |-> i + 1, bytes |-> acc]
    ELSE IF i + 1 = Len(src) THEN [tag |-> "Err"]
    ELSE rw_filename(src, i + 1, Append(acc, At(src, i)))

\* RWHeader::from_raw, the mode loop (header.rs:242-250): src[i] is read
\* before i is compared with src.len().
RECURSIVE rw_mode(_, _, _)
rw_mode(src, i, acc) ==
    IF i >= Len(src) THEN [tag |-> "Panic"]
    ELSE IF At(src, i) = 0 THEN [tag |-> "Ok", bytes |-> acc]
    ELSE rw_mode(src, i + 1, Append(acc, At(src, i)))

\* RWHeader::from_raw
DecodeRW(src, kind, dbg) ==
    IF dbg /\ At(src, 0) # 0 THEN Panic
    ELSE IF Len(src) < 6 THEN Err("InvalidHeaderLen")
    ELSE IF At(src, 2) = 0 THEN Err("EmptyFilename")
    ELSE LET f == rw_filename(src, 2, <<>>)
         IN IF f.tag = "Err" THEN Err("InvalidFilename")
            ELSE LET m == rw_mode(src, f.i, <<>>)
                 IN IF m.tag = "Panic" THEN Panic
                    ELSE IF m.bytes = <<>> THEN Err("EmptyMode")
                    ELSE IF ~IsUtf8(f.bytes) \/ ~IsUtf8(m.bytes)
                         THEN Err("InvalidUnicodeString")
                    ELSE IF ModeFromStr(m.bytes) = {} THEN Err("InvalidMode")
                    ELSE Ok(RWHeader(kind, f.bytes, Unwrap(ModeFromStr(m.bytes))))

\* ErrorHeader::from_raw, the message loop (header.rs:512-515)
RECURSIVE error_message(_, _, _)
error_message(src, i, acc) ==
    IF 4 + i >= Len(src) THEN [tag |-> "Panic"]
    ELSE IF At(src, 4 + i) = 0 THEN [tag |-> "Ok", bytes |-> acc]
    ELSE error_message(src, i + 1, Append(acc, At(src, 4 + i)))

\* ErrorHeader::from_raw
DecodeError(src, dbg) ==
    IF Len(src) < 5 THEN Err("InvalidHeaderLen")
    ELSE IF dbg /\ At(src, 0) # 0 THEN Panic
    ELSE LET m == error_message(src, 0, <<>>)
         IN IF m.tag = "Panic" THEN Panic
            ELSE IF ~IsUtf8(m.bytes) THEN Err("InvalidUnicodeString")
            ELSE Ok([kind |-> "Error",
                     error_code |-> ErrorCodeFrom(At(src, 2) * 256 + At(src, 3)),
                     error_message |-> m.bytes])

\* Header::recv, header.rs:43-55: the dispatch on the opcode byte of the
\* bytes_read bytes of the datagram.  buf[1] is out of range for a datagram
\* of fewer than two bytes; for an unknown opcode clone_from_slice copies
\* the datagram into an empty slice, and panics on the lengths.
DecodeHeader(src, dbg) ==
    IF Len(src) < 2 THEN Panic
    ELSE CASE At(src, 1) = OPCODE_RRQ -> DecodeRW(src, "Read", dbg)
           [] At(src, 1) = OPCODE_WRQ -> DecodeRW(src, "Write", dbg)
           [] At(src, 1) = OPCODE_ACK -> DecodeAck(src, dbg)
           [] At(src, 1) = OPCODE_ERROR -> DecodeError(src, dbg)
           [] At(src, 1) = OPCODE_DATA -> DecodeData(src, dbg)
           [] OTHER -> Panic

\* header.rs:14
BUFF_ALLOCATION_SIZE == MAX_DATA_LEN * 2

\* Header::peek, header.rs:68-85: the whole zero-filled buffer is decoded,
\* not the bytes_read bytes of the datagram.
PeekBuffer(d) == d \o Zeros(BUFF_ALLOCATION_SIZE - Len(d))

PeekHeader(d, dbg) ==
    LET buf == PeekBuffer(d)
    IN CASE At(buf, 1) = OPCODE_RRQ -> DecodeRW(buf, "Read", dbg)
         [] At(buf, 1) = OPCODE_WRQ -> DecodeRW(buf, "Write", dbg)
         [] At(buf, 1) = OPCODE_ACK -> DecodeAck(buf, dbg)
         [] At(buf, 1) = OPCODE_ERROR -> DecodeError(buf, dbg)
         [] At(buf, 1) = OPCODE_DATA -> DecodeData(buf, dbg)
         [] OTHER -> Ok([kind |-> "Invalid"])

\* Header::recv, header.rs:35-66, on the datagram d at the head of the
\* socket.  A datagram of another host is only looked at with peek_from
\* and stays in the socket; one of the peer is taken out with recv_from
\* and then decoded.
recv(d, dbg) ==
    IF d.from # "peer"
    THEN [result |-> Err("WrongHost"), taken |-> FALSE]
    ELSE [result |-> DecodeHeader(d.bytes, dbg), taken |-> TRUE]

\* ---- the inputs of the codec
\* UTF-8 encodings of 'a', 'Z', '.' and of a two-byte and a three-byte character.
Chars == {<<97>>, <<90>>, <<46>>, <<195, 169>>, <<226, 130, 172>>}
RECURSIVE Strings(_)
Strings(n) ==
    IF n = 0 THEN {<<>>}
    ELSE LET shorter == Strings(n - 1)
         IN shorter \cup {s \o c : s \in shorter, c \in Chars}
\* Block numbers around the byte boundaries of the 24-bit field.
BlockNumbers == {0, 1, 255, 256, 65535, 65536, 16777215}
RECURSIVE ByteSeqs(_)
ByteSeqs(n) ==
    IF n = 0 THEN {<<>>}
    ELSE LET shorter == ByteSeqs(n - 1)
         IN shorter \cup {s \o <<b>> : s \in shorter, b \in {0, 7, 255}}
\* Short payloads, and the payloads of 511 and 512 bytes.
Payloads ==
    ByteSeqs(MaxPayloadLen)
        \cup {[i \in 1..n |-> U8(i)] : n \in {MAX_DATA_LEN - 1, MAX_DATA_LEN}}
Headers ==
    {AckHeader(bn) : bn \in BlockNumbers}
        \cup {DataHeader(d, bn) : d \in Payloads, bn \in BlockNumbers}
        \cup {RWHeader(k, f, m) : k \in {"Read", "Write"},
                                  f \in Strings(MaxStrLen) \ {<<>>},
                                  m \in {"Mail", "NetASCII", "Octet"}}
        \cup {ErrorHeader(c, msg) : c \in {0, 1, 7, 8, 65535}, msg \in Strings(MaxStrLen)}

\* Header::send, header.rs:88-89
Encode ==
    /\ c_pc = "header"
    /\ c_raw' = EncodeHeader(c_header)
    /\ c_pc' = "raw"
    /\ UNCHANGED <<c_header, c_decoded, debug_assertions>>
    /\ UNCHANGED <<svars, rvars, nvars, shist, rhist, lvars, srvvars, fvars, tvars, ivars>>

\* Header::recv, header.rs:43-55
Decode ==
    /\ c_pc = "raw"
    /\ c_decoded' = DecodeHeader(c_raw, debug_assertions)
    /\ c_pc' = "decoded"
    /\ UNCHANGED <<c_header, c_raw, debug_assertions>>
    /\ UNCHANGED <<svars, rvars, nvars, shist, rhist, lvars, srvvars, fvars, tvars, ivars>>

(***************************************************************************)
(* Datagrams that are not TFTP packets of the peer.  The engines' sockets  *)
(* are UDP sockets: any host can send to them, and the peer can send any   *)
(* bytes.  s_sock and r_sock hold such a datagram while it is the oldest   *)
(* one in the socket, which is the one the next read returns.              *)
(***************************************************************************)
\* An ACK(0) sent by a host that is not the peer.
StrayDatagrams == {[from |-> "other", bytes |-> EncodeHeader(AckHeader(0))]}

\* Malformed datagrams of the peer: a single byte, an ACK of two bytes, an
\* unknown opcode, an ERROR whose message is not terminated, and an ERROR
\* whose message is not UTF-8.
MalformedDatagrams ==
    {[from |-> "peer", bytes |-> b] :
        b \in {<<0>>, <<0, 4>>, <<0, 9, 0, 0>>, <<0, 5, 0, 1, 97>>,
               <<0, 5, 0, 1, 255, 0>>}}

StrayToSender ==
    /\ s_pc = "run"
    /\ s_sock = {}
    /\ \E d \in StrayDatagrams : s_sock' = {d}
    /\ UNCHANGED <<s_pc, file_len, window_size, role, num_blocks, blocks_pending_acks,
                   next_to_send, timeout_pq, send_times, timeouts>>
    /\ UNCHANGED <<rvars, nvars, shist, rhist>>
    /\ UNCHANGED <<cvars, lvars, srvvars, fvars, tvars, ivars>>

MalformedToSender ==
    /\ s_pc = "run"
    /\ s_sock = {}
    /\ \E d \in MalformedDatagrams : s_sock' = {d}
    /\ UNCHANGED <<s_pc, file_len, window_size, role, num_blocks, blocks_pending_acks,
                   next_to_send, timeout_pq, send_times, timeouts>>
    /\ UNCHANGED <<rvars, nvars, shist, rhist>>
    /\ UNCHANGED <<cvars, lvars, srvvars, fvars, tvars, ivars>>

StrayToReceiver ==
    /\ r_pc = "run"
    /\ r_sock = {}
    /\ \E d \in StrayDatagrams : r_sock' = {d}
    /\ UNCHANGED <<r_pc, file_map, highest_block, received_last_block, received,
                   consec_recv, error_count>>
    /\ UNCHANGED <<svars, nvars, shist, rhist>>
    /\ UNCHANGED <<cvars, lvars, srvvars, fvars, tvars, ivars>>

MalformedToReceiver ==
    /\ r_pc = "run"
    /\ r_sock = {}
    /\ \E d \in MalformedDatagrams : r_sock' = {d}
    /\ UNCHANGED <<r_pc, file_map, highest_block, received_last_block, received,
                   consec_recv, error_count>>
    /\ UNCHANGED <<svars, nvars, shist, rhist>>
    /\ UNCHANGED <<cvars, lvars, srvvars, fvars, tvars, ivars>>

\* SendFile::poll, send.rs:309-348, when the read finds such a datagram:
\* receive_header (send.rs:278-294) turns WrongHost and every decoding
\* error into Ok(None), and poll returns NotReady.
\* The field odd of the event is the parity of the number of such reads in
\* a row: it tells a read that is repeated from no read at all.
SendPollOther ==
    /\ s_pc = "run"
    /\ blocks_pending_acks # {}
    /\ s_sock # {}
    /\ \E expired \in BOOLEAN :
          LET s == resend_timeout(SenderState, expired)
          IN /\ SetSender(s)
             /\ to_receiver' = s.net
    /\ timeouts' = 0
    /\ LET r == recv(Unwrap(s_sock), debug_assertions)
       IN /\ s_sock' = IF r.taken THEN {} ELSE s_sock
          /\ s_pc' = IF r.result.tag = "Panic" THEN "panic" ELSE "run"
          /\ s_event' = [type |-> "OTHER", from |-> Unwrap(s_sock).from,
                         result |-> r.result.tag,
                         odd |-> ~(s_event.type = "OTHER" /\ s_event.odd)]
    /\ UNCHANGED <<file_len, window_size, role, num_blocks, to_sender,
                   acks_handled, final_acks, init_reads, s_err>>
    /\ UNCHANGED <<rvars, rhist>>
    /\ UNCHANGED <<cvars, lvars, srvvars, fvars, tvars, ivars>>

\* ReceiveFile::poll, receive.rs:217-285, when the read finds such a
\* datagram: receive_header (receive.rs:165-185) gives Ok(None).
RecvPollOther ==
    /\ r_pc = "run"
    /\ ~contains_all
    /\ r_sock # {}
    /\ consec_recv' = update_consec(consec_recv, received)
    /\ error_count' = 0
    /\ LET r == recv(Unwrap(r_sock), debug_assertions)
       IN /\ r_sock' = IF r.taken THEN {} ELSE r_sock
          /\ r_pc' = IF r.result.tag = "Panic" THEN "panic" ELSE "run"
          /\ r_event' = [type |-> "OTHER", from |-> Unwrap(r_sock).from,
                         result |-> r.result.tag,
                         odd |-> ~(r_event.type = "OTHER" /\ r_event.odd)]
    /\ UNCHANGED <<file_map, highest_block, received_last_block, received,
                   to_receiver, to_sender>>
    /\ UNCHANGED <<written, r_err, ack_last, ack_kind, ack_decreased>>
    /\ UNCHANGED <<svars, shist>>
    /\ UNCHANGED <<cvars, lvars, srvvars, fvars, tvars, ivars>>

InitCodec ==
    /\ c_pc = "header"
    /\ c_header = AckHeader(0)
    /\ c_raw = <<>>
    /\ c_decoded = Err("None")
    /\ debug_assertions = FALSE

InitLarge ==
    /\ l_pc = "new"
    /\ l_len = [q |-> 0, r |-> 1]
    /\ l_next = 0
    /\ l_sent = {}

InitServer ==
    /\ srv_pc = "loop"
    /\ srv_queue = <<>>
    /\ srv_served = 0
    /\ srv_event = "none"

InitEngines ==
    /\ s_pc = "new"
    /\ window_size \in WindowSizes
    /\ role \in Roles
    /\ num_blocks = 0
    /\ blocks_pending_acks = {}
    /\ next_to_send = 0
    /\ timeout_pq = <<>>
    /\ send_times = {}
    /\ timeouts = 0
    /\ s_sock = {}
    /\ r_pc = "new"
    /\ file_map = [len |-> 0, data |-> [k \in Slots |-> 0]]
    /\ highest_block = {}
    /\ received_last_block = FALSE
    /\ received = {}
    /\ consec_recv = {}
    /\ error_count = 0
    /\ r_sock = {}
    /\ to_receiver = {}
    /\ to_sender = {}
    /\ data_sent = {}
    /\ s_log = <<>>
    /\ resent = {}
    /\ acks_handled = {}
    /\ final_acks = 0
    /\ init_reads = 0
    /\ s_event = [type |-> "NONE"]
    /\ s_err = {}
    /\ written = {}
    /\ r_event = [type |-> "NONE"]
    /\ r_err = {}
    /\ ack_last = {}
    /\ ack_kind = "none"
    /\ ack_decreased = FALSE
    /\ send_fails = FALSE
    /\ error_sends = <<>>
    /\ average_rtt = NANOS_PER_SEC
    /\ packet_time = NANOS_PER_SEC
    /\ elapsed = 0
    /\ samples = 0
    /\ init_acks = 0

(***************************************************************************)
(* Spec: a transfer between SendFile and ReceiveFile.                      *)
(***************************************************************************)
Init ==
    /\ file_len \in FileLens
    /\ InitEngines
    /\ InitCodec
    /\ InitLarge
    /\ InitServer

Next ==
    \/ SendNewFail
    \/ SendNewServer
    \/ SendNewClient
    \/ SendNewClientNoAck
    \/ SendPollReady
    \/ SendPollAck
    \/ SendPollError
    \/ SendPollTimeout
    \/ RecvNew
    \/ RecvPollReady
    \/ RecvPollTotalTimeout
    \/ RecvPollData
    \/ RecvPollIgnored
    \/ RecvPollTimeout

Spec == Init /\ [][Next]_vars

(***************************************************************************)
(* RecvSpec: ReceiveFile facing a remote sender of a file of length        *)
(* file_len, over a network that loses, duplicates and reorders its DATA.   *)
(***************************************************************************)
RecvInit ==
    /\ file_len \in PeerFileLens
    /\ InitEngines
    /\ InitCodec
    /\ InitLarge
    /\ InitServer
    /\ window_size = 1
    /\ role = "server"

RecvNext ==
    \/ PeerData
    \/ RecvNew
    \/ RecvPollReady
    \/ RecvPollTotalTimeout
    \/ RecvPollData
    \/ RecvPollTimeout

RecvSpec == RecvInit /\ [][RecvNext]_vars
(***************************************************************************)
(* CodecSpec: a header is encoded and the bytes are decoded, in a debug    *)
(* or a release build.                                                     *)
(***************************************************************************)
CodecInit ==
    /\ file_len = 1
    /\ InitEngines
    /\ window_size = 1
    /\ role = "server"
    /\ c_pc = "header"
    /\ c_header \in Headers
    /\ c_raw = <<>>
    /\ c_decoded = Err("None")
    /\ debug_assertions \in BOOLEAN
    /\ InitLarge
    /\ InitServer

CodecNext ==
    \/ Encode
    \/ Decode

CodecSpec == CodecInit /\ [][CodecNext]_vars
(***************************************************************************)
(* LargeSpec: SendFile is constructed on a file whose length is near 0 or  *)
(* near (1 << 24) * MAX_DATA_LEN, and next_block hands out the last blocks. *)
(* The length is kept as whole blocks q and remaining bytes r.             *)
(***************************************************************************)
\* Bound: how far the number of whole blocks ranges from 0 and from 1 << 24,
\* and how many blocks before num_blocks next_block starts from.
MaxNear == 2

\* send.rs:93, 1 << 24
BLOCK_LIMIT == 16777216

LargeLens ==
    {[q |-> q, r |-> r] :
        q \in (0..MaxNear) \cup ((BLOCK_LIMIT - MaxNear)..(BLOCK_LIMIT + MaxNear)),
        r \in {0, 1, 255, 511}}

\* send.rs:95; file_len & (MAX_DATA_LEN - 1) is r.
NumBlocksOf(len) == len.q + (IF len.r = 0 THEN 0 ELSE 1)

\* send.rs:91: the mapping of an empty file fails.
MmapOkOf(len) == len.q > 0 \/ len.r > 0

\* get_block_n, send.rs:188-201: file_len - block_number * MAX_DATA_LEN for
\* the last block, MAX_DATA_LEN for the others.
block_len(len, bn) ==
    IF bn = NumBlocksOf(len) - 1
    THEN (len.q - bn) * MAX_DATA_LEN + len.r
    ELSE MAX_DATA_LEN

\* next_block, send.rs:204-214, at next_to_send = n.
next_block_of(len, n) ==
    IF n < NumBlocksOf(len)
    THEN {[index |-> n, pkt |-> DataPkt(n, block_len(len, n))]}
    ELSE IF n = NumBlocksOf(len) /\ len.q = NumBlocksOf(len)
         THEN {[index |-> n, pkt |-> DataPkt(n, 0)]}
         ELSE {}

\* new / new_server: the mapping or the size check fails.
LargeNewFail ==
    /\ l_pc = "new"
    /\ ~MmapOkOf(l_len) \/ TooLargeOf(l_len.q, l_len.r)
    /\ l_pc' = "err"
    /\ UNCHANGED <<l_len, l_next, l_sent>>
    /\ UNCHANGED <<svars, rvars, nvars, shist, rhist, cvars, srvvars, fvars, tvars, ivars>>

\* new / new_server succeed; the blocks before the last MaxNear ones are
\* taken as sent.
LargeNew ==
    /\ l_pc = "new"
    /\ MmapOkOf(l_len) /\ ~TooLargeOf(l_len.q, l_len.r)
    /\ l_pc' = "ok"
    /\ l_next' = Max(0, NumBlocksOf(l_len) - MaxNear)
    /\ UNCHANGED <<l_len, l_sent>>
    /\ UNCHANGED <<svars, rvars, nvars, shist, rhist, cvars, srvvars, fvars, tvars, ivars>>

\* send_next_block, send.rs:247-254
LargeNextBlock ==
    /\ l_pc = "ok"
    /\ l_next <= NumBlocksOf(l_len)
    /\ l_next' = l_next + 1
    /\ l_sent' = l_sent \cup next_block_of(l_len, l_next)
    /\ UNCHANGED <<l_pc, l_len>>
    /\ UNCHANGED <<svars, rvars, nvars, shist, rhist, cvars, srvvars, fvars, tvars, ivars>>

LargeInit ==
    /\ file_len = 1
    /\ InitEngines
    /\ window_size = 1
    /\ role = "server"
    /\ InitCodec
    /\ l_pc = "new"
    /\ l_len \in LargeLens
    /\ l_next = 0
    /\ l_sent = {}
    /\ InitServer

LargeNext ==
    \/ LargeNewFail
    \/ LargeNew
    \/ LargeNextBlock

LargeSpec == LargeInit /\ [][LargeNext]_vars
(***************************************************************************)
(* LossySpec: a transfer of a non-empty file with a window of at least one *)
(* block, over the network of Spec: any datagram may be lost or delayed    *)
(* (it is not taken and the read times out), duplicated or reordered.      *)
(***************************************************************************)
LossyInit ==
    /\ file_len \in FileLens \ {0}
    /\ InitEngines
    /\ InitCodec
    /\ InitLarge
    /\ InitServer
    /\ window_size \in 1..MaxWindow

LossyNext ==
    \/ SendNewServer
    \/ SendNewClient
    \/ SendNewClientNoAck
    \/ SendPollReady
    \/ SendPollAck
    \/ SendPollError
    \/ SendPollTimeout
    \/ RecvNew
    \/ RecvPollReady
    \/ RecvPollTotalTimeout
    \/ RecvPollData
    \/ RecvPollIgnored
    \/ RecvPollTimeout

LossySpec == LossyInit /\ [][LossyNext]_vars
(***************************************************************************)
(* ServerSpec: the request loop of the example server.  Datagrams arrive   *)
(* at the server's socket and each iteration of the loop peeks at the      *)
(* oldest one.                                                             *)
(***************************************************************************)
\* Bounds: datagrams waiting in the socket, and requests served before
\* the clients stop sending.
MaxQueue == 2
MaxServed == 2

\* A read request for "a" and a write request for "a", in octet mode.
ValidRRQ == EncodeHeader(RWHeader("Read", <<97>>, "Octet"))
ValidWRQ == EncodeHeader(RWHeader("Write", <<97>>, "Octet"))

\* Datagrams that are not TFTP packets: a read request whose filename is
\* not terminated (4 and 7 bytes), one whose mode is not terminated, one
\* whose filename is not UTF-8, an unknown opcode, and a single byte.
MalformedRequests ==
    {<<0, 1, 97, 98>>,
     <<0, 1, 97, 98, 99, 100, 101>>,
     <<0, 1, 97, 0, 111, 99, 116, 101, 116>>,
     <<0, 1, 255, 0, 111, 99, 116, 101, 116, 0>>,
     <<0, 9>>,
     <<0>>}

Requests == {ValidRRQ, ValidWRQ, EncodeHeader(AckHeader(0))} \cup MalformedRequests

\* A client's datagram reaches the server's socket.
ServerArrive ==
    /\ Len(srv_queue) < MaxQueue
    /\ srv_served < MaxServed
    /\ \E d \in Requests : srv_queue' = Append(srv_queue, d)
    /\ UNCHANGED <<srv_pc, srv_served, srv_event>>
    /\ UNCHANGED <<svars, rvars, nvars, shist, rhist, cvars, lvars, fvars, tvars, ivars>>

\* One iteration of the loop, main.rs:102-128, with nothing to read: peek
\* fails after the read timeout, and the loop continues.
ServerIdle ==
    /\ srv_pc = "loop"
    /\ srv_queue = <<>>
    /\ srv_event' = "timeout"
    /\ UNCHANGED <<srv_pc, srv_queue, srv_served>>
    /\ UNCHANGED <<svars, rvars, nvars, shist, rhist, cvars, lvars, fvars, tvars, ivars>>

\* One iteration of the loop, main.rs:102-128, with a datagram to read.
\* Header::peek leaves the datagram in the socket; when it fails the loop
\* continues; otherwise Header::recv, expecting the datagram's own sender,
\* takes it out of the socket and decodes it once more, and a read request
\* is handed to handle_read_request.
ServerLoop ==
    /\ srv_pc = "loop"
    /\ srv_queue # <<>>
    /\ LET d == Head(srv_queue)
           peeked == PeekHeader(d, debug_assertions)
           recvd == DecodeHeader(d, debug_assertions)
       IN IF peeked.tag = "Panic"
          THEN /\ srv_pc' = "panic"
               /\ srv_event' = "panic"
               /\ UNCHANGED <<srv_queue, srv_served>>
          ELSE IF peeked.tag = "Err"
          THEN /\ srv_event' = "peek_err"
               /\ UNCHANGED <<srv_pc, srv_queue, srv_served>>
          ELSE /\ srv_queue' = Tail(srv_queue)
               /\ IF recvd.tag = "Panic"
                  THEN /\ srv_pc' = "panic"
                       /\ srv_event' = "panic"
                       /\ UNCHANGED srv_served
                  ELSE IF peeked.header.kind = "Read"
                  THEN /\ srv_served' = srv_served + 1
                       /\ srv_event' = "served"
                       /\ UNCHANGED srv_pc
                  ELSE /\ srv_event' = "ignored"
                       /\ UNCHANGED <<srv_pc, srv_served>>
    /\ UNCHANGED <<svars, rvars, nvars, shist, rhist, cvars, lvars, fvars, tvars, ivars>>

ServerInit ==
    /\ file_len = 1
    /\ InitEngines
    /\ window_size = 1
    /\ role = "server"
    /\ c_pc = "header"
    /\ c_header = AckHeader(0)
    /\ c_raw = <<>>
    /\ c_decoded = Err("None")
    /\ debug_assertions \in BOOLEAN
    /\ InitLarge
    /\ InitServer

ServerNext ==
    \/ ServerArrive
    \/ ServerIdle
    \/ ServerLoop

ServerSpec == ServerInit /\ [][ServerNext]_vars
(***************************************************************************)
(* AbortSpec: the transfer of LossySpec, where in addition the program at  *)
(* either end may send an ERROR packet to the engine at the other end.     *)
(***************************************************************************)
AbortInit == LossyInit

AbortNext ==
    \/ SendNewServer
    \/ SendNewClient
    \/ SendNewClientNoAck
    \/ SendPollReady
    \/ SendPollAck
    \/ SendPollError
    \/ SendPollTimeout
    \/ RecvNew
    \/ RecvPollReady
    \/ RecvPollTotalTimeout
    \/ RecvPollData
    \/ RecvPollError
    \/ RecvPollIgnored
    \/ RecvPollTimeout
    \/ PeerError

AbortSpec == AbortInit /\ [][AbortNext]_vars
(***************************************************************************)
(* SocketSpec: the transfer of LossySpec for a file of at most two blocks  *)
(* and a window of one block, where datagrams of other hosts and malformed *)
(* datagrams of the peer reach the engines' sockets.                       *)
(***************************************************************************)
\* Source files of one short block, and of one whole block and a short one.
SocketLens == {1, MAX_DATA_LEN + 1}

SocketInit ==
    /\ LossyInit
    /\ file_len \in SocketLens
    /\ window_size = 1

SocketNext ==
    \/ SendNewServer
    \/ SendNewClient
    \/ SendNewClientNoAck
    \/ SendPollReady
    \/ SendPollAck
    \/ SendPollError
    \/ SendPollTimeout
    \/ SendPollOther
    \/ RecvNew
    \/ RecvPollReady
    \/ RecvPollTotalTimeout
    \/ RecvPollData
    \/ RecvPollIgnored
    \/ RecvPollTimeout
    \/ RecvPollOther
    \/ StrayToSender
    \/ MalformedToSender
    \/ StrayToReceiver
    \/ MalformedToReceiver

SocketSpec == SocketInit /\ [][SocketNext]_vars
(***************************************************************************)
(* SilentSpec: both engines are constructed and then hear nothing from the *)
(* peer: every datagram of the peer is lost, so no read of an engine       *)
(* yields a packet of the peer.  A read either times out or returns the    *)
(* datagram of another host that is the oldest one in the socket.          *)
(* SilentFairSpec adds the scheduling of the run loops that drive the      *)
(* engines: a future that returned NotReady is polled again, so an engine  *)
(* that is running keeps reading, and the clock of the receiver's          *)
(* last_time check keeps advancing.                                        *)
(***************************************************************************)
SilentInit == LossyInit

SilentNext ==
    \/ SendNewServer
    \/ SendNewClient
    \/ SendNewClientNoAck
    \/ SendPollTimeout
    \/ SendPollOther
    \/ RecvNew
    \/ RecvPollTotalTimeout
    \/ RecvPollTimeout
    \/ RecvPollOther
    \/ StrayToSender
    \/ StrayToReceiver

SilentSpec == SilentInit /\ [][SilentNext]_vars

SilentFairSpec ==
    /\ SilentSpec
    /\ WF_vars(SendPollTimeout)
    /\ WF_vars(SendPollOther)
    /\ WF_vars(RecvPollTimeout)
    /\ WF_vars(RecvPollOther)
    /\ WF_vars(RecvPollTotalTimeout)

(***************************************************************************)
(* RequestSpec: the bytes of a read or a write request, well formed or     *)
(* not, reach Header::recv and are decoded by RWHeader::from_raw, in a     *)
(* debug or a release build.                                               *)
(***************************************************************************)
\* The mode names in lower case, in upper case and capitalised.
ModeSpellings ==
    LET lower == {ModeBytes(m) : m \in {"Mail", "NetASCII", "Octet"}}
        Upper(b) == [i \in 1..Len(b) |-> b[i] - 32]
        Capital(b) == [i \in 1..Len(b) |-> IF i = 1 THEN b[i] - 32 ELSE b[i]]
    IN lower \cup {Upper(b) : b \in lower} \cup {Capital(b) : b \in lower}

\* Filenames: "a", "ab", "abc".
RequestNames == {<<97>>, <<97, 98>>, <<97, 98, 99>>}

\* The bytes of a request: the opcode, the filename and the mode, each of
\* the two strings followed by its zero byte or not.
RequestBytes(op, f, fz, m, mz) ==
    <<0, op>> \o f \o (IF fz THEN <<0>> ELSE <<>>) \o m \o (IF mz THEN <<0>> ELSE <<>>)

\* Well-formed requests: a filename, a zero, a mode name in some letter
\* case, a zero.
WellFormedRequests ==
    {RequestBytes(op, f, TRUE, m, TRUE) :
        op \in {OPCODE_RRQ, OPCODE_WRQ}, f \in RequestNames, m \in ModeSpellings}

\* Requests that are too short, have an empty or unterminated filename, a
\* missing, unterminated or unknown mode.
IllFormedRequests ==
    {RequestBytes(op, f, fz, m, mz) :
        op \in {OPCODE_RRQ, OPCODE_WRQ}, f \in RequestNames \cup {<<>>},
        fz \in BOOLEAN, m \in ModeSpellings \cup {<<>>, <<120>>}, mz \in BOOLEAN}
      \ WellFormedRequests

RawRequests == WellFormedRequests \cup IllFormedRequests

\* A datagram with the bytes of a request is read from the socket.
RequestArrive ==
    /\ c_pc = "header"
    /\ c_raw' \in RawRequests
    /\ c_pc' = "raw"
    /\ UNCHANGED <<c_header, c_decoded, debug_assertions>>
    /\ UNCHANGED <<svars, rvars, nvars, shist, rhist, lvars, srvvars, fvars, tvars, ivars>>

RequestInit ==
    /\ CodecInit
    /\ c_header = AckHeader(0)

RequestNext ==
    \/ RequestArrive
    \/ Decode

RequestSpec == RequestInit /\ [][RequestNext]_vars

(***************************************************************************)
(* The claims                                                              *)
(***************************************************************************)
\* The bytes of the source file that belong in 512-byte slot k.
SourceSlot(k) == Min(MAX_DATA_LEN, Max(0, file_len - k * MAX_DATA_LEN))

DestEqualsSource ==
    /\ file_map.len = file_len
    /\ \A k \in Slots : file_map.data[k] = SourceSlot(k)

\* C1: whenever the receive engine has returned Ready, under any loss,
\* duplication and reordering of DATA, the destination file has the length
\* and the contents of the source file.
C1_ReadyMeansEqual == r_pc = "ready" => DestEqualsSource

\* C2: the receive engine is Ready only when a DATA block shorter than 512
\* bytes has been processed and every block index from 0 through the largest
\* index received is in `received`.
C2_ReadyMeansNoGap ==
    r_pc = "ready" =>
        /\ received_last_block
        /\ \A i \in Slots : (\E j \in received : i <= j) => i \in received

C4_AcksMonotoneToFinal ==
    r_pc = "ready" =>
        /\ ~ack_decreased
        /\ ack_last \in {{FinalBlock(file_len)}, {NumBlocks(file_len) - 1}}

\* DATA blocks sent and not yet acknowledged: no ACK the sender has processed
\* carries their number or a higher one.
InFlight ==
    {d.block_number : d \in data_sent} \ {b \in Slots : \E a \in acks_handled : b <= a}

\* C5: in every state of the send engine, for a window size of at least 1,
\* the DATA blocks sent and not yet acknowledged number at most window_size,
\* also after duplicate or stale ACKs.
C5_InFlightWithinWindow ==
    (s_pc \in {"run", "ready"} /\ window_size >= 1) =>
        Cardinality(InFlight) <= window_size

\* C6: the window size the send engine works with is within [1, 256] in every
\* state, whatever value was passed at construction.
C6_WindowWithinBounds == s_pc \in {"run", "ready"} => window_size \in 1..256

\* C7: a poll that takes in a DATA block the receive engine has already
\* processed leaves the length and the contents of the destination file
\* unchanged.
C7_RedeliveredDataNoOp ==
    [][(RecvPollData /\ r_event'.block_number \in written) => file_map' = file_map]_vars

\* The lowest block not yet acknowledged.
window_lo == CHOOSE b \in blocks_pending_acks : \A c \in blocks_pending_acks : b <= c

\* C8: a poll of a send engine with a window of at least 1 that takes in an
\* ACK(b) the engine has already processed, with b >= window_lo - 1, leaves
\* the pending set as it is and sends no DATA block that was not sent before.
C8_RedeliveredAckNoOp ==
    [][(SendPollAck /\ window_size >= 1
            /\ s_event'.block_number \in acks_handled
            /\ s_event'.block_number >= window_lo - 1)
        => (/\ blocks_pending_acks' = blocks_pending_acks
            /\ data_sent' = data_sent)]_vars

\* C9: decoding the encoding of a well-formed packet of any kind, with any
\* 24-bit block number, gives the packet back (an ERROR code of 8 or more
\* having become 0 when the header was built).
C9_RoundTrip == c_pc = "decoded" => c_decoded = Ok(c_header)

\* The DATA blocks of a file of length len: 512-byte slices 0..ceil(len/512)-1,
\* and an empty block at index len / 512 iff len is a multiple of 512.
ExpectedBlocks(len) ==
    {DataPkt(k, Min(MAX_DATA_LEN, len - k * MAX_DATA_LEN)) :
        k \in {j \in Slots : j * MAX_DATA_LEN < len}}
        \cup (IF len % MAX_DATA_LEN = 0 THEN {DataPkt(len \div MAX_DATA_LEN, 0)} ELSE {})

\* C10 (blocks): every DATA the sender produces is a block of ExpectedBlocks,
\* and a sender with a window of at least 1 that is Ready has produced them all.
C10_BlocksAsExpected ==
    /\ data_sent \subseteq ExpectedBlocks(file_len)
    /\ (s_pc = "ready" /\ window_size >= 1) => data_sent = ExpectedBlocks(file_len)

\* C10: for any file length, 0 included, a sender in the server role with a
\* window of at least 1 produces block 0 of ExpectedBlocks when it starts (for
\* length 0, the one empty DATA), and produces no DATA outside ExpectedBlocks.
C10_ProducesBlocks ==
    /\ data_sent \subseteq ExpectedBlocks(file_len)
    /\ (s_pc # "new" /\ role = "server" /\ window_size >= 1) =>
            DataPkt(0, Min(MAX_DATA_LEN, file_len)) \in data_sent

\* C11: constructing a send engine succeeds for every file length below
\* 2^24 * 512 bytes and fails for every length at or above it, so that no
\* block handed out, the empty terminator included, has a block number of
\* 2^24 or more (which the 24-bit wire field cannot hold).
C11_LimitAtConstruction ==
    /\ l_pc = "ok" => l_len.q < BLOCK_LIMIT
    /\ l_pc = "err" => l_len.q >= BLOCK_LIMIT
    /\ \A e \in l_sent : e.index < BLOCK_LIMIT /\ e.pkt.block_number = e.index

\* C12: on a channel that drops datagrams, but not forever, a transfer
\* eventually terminates with both engines Ready and the destination file
\* equal to the source.  An engine that has returned Err (or panicked) is
\* never polled again and a Ready receiver no longer writes, so the claim
\* requires that no engine ever ends in Err and that a Ready receiver holds
\* the source's bytes.
C12_NoFailedTermination ==
    /\ s_pc # "err"
    /\ r_pc \notin {"err", "panic"}
    /\ r_pc = "ready" => DestEqualsSource

\* C13: a lossless transfer of a 0-byte file is one DATA(0) with an empty
\* payload and one ACK(0), and ends with the receive engine Ready and the
\* destination file of length 0.  Once the receive engine has handled the
\* empty DATA(0) of a 0-byte file it has therefore not failed, and the
\* destination has length 0.
C13_EmptyFileReceived ==
    (file_len = 0 /\ r_event = DataPkt(0, 0)) =>
        (r_pc \in {"run", "ready"} /\ file_map.len = 0)

\* C14: after the sender has processed the receiver's final ACK, a further
\* copy of that ACK makes the sender send no DATA block, puts no block
\* back into the pending set and leaves the sender's outcome alone (the
\* retransmission of an expired block by the same poll is the timer's, and
\* sends a block that was sent before).
C14_FinalAckCopiesNoOp ==
    [][(SendPollAck /\ final_acks >= 1 /\ IsFinalAck(s_event')) =>
           /\ blocks_pending_acks' = blocks_pending_acks
           /\ data_sent' = data_sent
           /\ s_pc' = s_pc]_vars

C14_Witness ==
    /\ final_acks = 4
    /\ s_pc = "run"
    /\ s_event = AckPkt(Unwrap(ack_last))

\* C15: after the server receives a malformed request it answers ERROR or
\* ignores it, the malformed datagram is removed from the socket queue, and
\* a valid read request arriving afterwards is dispatched.  An iteration
\* of the loop that finds a malformed datagram therefore leaves the loop
\* running and the socket without that datagram.
C15_MalformedRequestRemoved ==
    [][(ServerLoop /\ Head(srv_queue) \in MalformedRequests) =>
           (srv_pc' = "loop" /\ srv_queue' = Tail(srv_queue))]_vars

\* C16: an engine that receives an ERROR packet terminates with Err
\* carrying the peer's message; from then on it sends no DATA or ACK and
\* never reports Ready.
Carries(err, msg) == \E e \in err : \E i \in 1..Len(e.text) : e.text[i] = msg

C19_WrongHostDiscarded ==
    [][/\ (SendPollOther /\ s_sock \subseteq StrayDatagrams) =>
             /\ s_sock' = {}
             /\ s_pc' = s_pc
             /\ blocks_pending_acks' = blocks_pending_acks
       /\ (RecvPollOther /\ r_sock \subseteq StrayDatagrams) =>
             /\ r_sock' = {}
             /\ r_pc' = r_pc
             /\ received' = received
             /\ file_map' = file_map]_vars

\* C20: a malformed datagram of the peer (shorter than a header, unknown
\* opcode, unterminated string, invalid UTF-8) is ignored by the engine that
\* reads it: the engine keeps running (it neither crashes nor terminates),
\* the datagram is taken out of the socket and the transfer state is as it
\* was before the read.
C20_MalformedIgnored ==
    [][/\ (SendPollOther /\ s_sock \subseteq MalformedDatagrams) =>
             /\ s_pc' = "run"
             /\ s_sock' = {}
             /\ blocks_pending_acks' = blocks_pending_acks
       /\ (RecvPollOther /\ r_sock \subseteq MalformedDatagrams) =>
             /\ r_pc' = "run"
             /\ r_sock' = {}
             /\ received' = received
             /\ file_map' = file_map]_vars

\* C18: an engine gives up on read timeouts only when more than 8 of them
\* came one after the other: an engine that ended on a read timeout counted
\* more than 8 consecutive timeouts, so with 8 or fewer it is still running.
C18_EscalationAfterEight ==
    /\ (s_pc = "err" /\ s_event.type = "TIMEOUT") => timeouts > 8
    /\ (r_pc = "err" /\ r_event.type = "TIMEOUT") => error_count > 8

\* The engine's result is the error of a read whose timeout expired.
TimedOut(err) == \E e \in err : e.kind \in ReadTimeoutKinds

\* C17: when the peer has stopped sending, each engine that is running
\* eventually ends with a timeout error (of kind TimedOut or WouldBlock,
\* whichever the socket reports): no engine keeps polling forever.
C17_SilentPeerTimesOut ==
    /\ (s_pc = "run") ~> (s_pc = "err" /\ TimedOut(s_err))
    /\ (r_pc = "run") ~> (r_pc = "err" /\ TimedOut(r_err))

\* C21: decoding the bytes of a read or write request never reads past the
\* end of the bytes: it returns a decoding error for every ill-formed
\* request (too short, empty or unterminated filename, missing, unterminated
\* or unknown mode) and a header for every well-formed one, whatever the
\* letter case of the mode name.
C21_RequestDecoded ==
    c_pc = "decoded" =>
        /\ c_raw \in IllFormedRequests => c_decoded.tag = "Err"
        /\ c_raw \in WellFormedRequests => c_decoded.tag = "Ok"

\* The first w blocks of a file of length len, in the order of their block
\* numbers; the blocks of a file include the empty block that ends a file
\* whose length is a multiple of 512.
InitialWindow(len, w) ==
    [i \in 1..Min(w, Cardinality(ExpectedBlocks(len))) |->
        CHOOSE d \in ExpectedBlocks(len) : d.block_number = i - 1]

\* C22: the construction of a send engine in the server role sends ACK(0)
\* first and then the blocks 0, 1, ... below min(window_size, number of
\* blocks), each one once and in increasing order, and nothing else, before
\* the engine is polled.
C22_ServerInitialWindow ==
    [][SendNewServer =>
          s_log' = <<AckPkt(0)>> \o InitialWindow(file_len, window_size)]_vars

\* A server-role engine with a window of 257 on a file of 512 bytes has sent
\* ACK(0), block 0 and the empty block 1, and has not been polled yet.
C22_Witness ==
    /\ s_pc = "run" /\ role = "server"
    /\ window_size = 257 /\ file_len = MAX_DATA_LEN
    /\ s_event.type = "NONE"
    /\ s_log = <<AckPkt(0), DataPkt(0, MAX_DATA_LEN), DataPkt(1, 0)>>

\* C23: the construction of a send engine in the client role fails with
\* InvalidData only after the attempts to receive the ACK of the write
\* request are used up: an engine that failed so has made at least
\* MAX_ATTEMPTS reads.
C23_InitUsesAllAttempts ==
    (s_pc = "err" /\ \E e \in s_err : e.kind = "InvalidData") => init_reads >= MAX_ATTEMPTS

\* C24: a poll of the send engine that takes in an ACK(b) with b at or above
\* the lowest pending block removes every block from that lowest block up to
\* b from the pending set, not only block b.
C24_AckIsCumulative ==
    [][(SendPollAck /\ s_event'.block_number >= window_lo) =>
          \A i \in window_lo..s_event'.block_number : i \notin blocks_pending_acks']_vars

\* C25: whenever the send engine has returned Ready, the receiver has
\* received and written every DATA block of the file: block 0, and the last
\* block that is shorter than 512 bytes (empty for a file whose length is a
\* multiple of 512) included.
C25_SenderReadyMeansDelivered ==
    s_pc = "ready" =>
        \A d \in ExpectedBlocks(file_len) :
            d.block_number \in received /\ d.block_number \in written

\* C26: once the receive engine has returned Ready and the send engine has
\* taken in one of the final ACKs, the send engine ends Ready: it does not
\* end with the error of a read timeout.
C26_FinalAckEndsSender ==
    (r_pc = "ready" /\ final_acks >= 1) => ~(s_pc = "err" /\ TimedOut(s_err))

\* C27: a poll of the receive engine that handles a DATA block and leaves
\* the engine with blocks to wait for answers the block with a cumulative
\* ACK before the next read: after the step the latest ACK the receiver has
\* sent is a cumulative one, for the block that the walk over `received`
\* ends at.
C27_DataIsAcked ==
    [][(RecvPollData /\ r_pc' = "run" /\ ~contains_all') =>
          /\ ack_kind' = "cumulative"
          /\ ack_last' = update_consec(consec_recv', received')]_vars

\* The blocks of the window that are still pending: sent, and not removed
\* from the pending set.
PendingSent == {d.block_number : d \in data_sent} \cap blocks_pending_acks

\* C28: a poll of the send engine whose read times out, and that does not
\* give up, retransmits every block of the window that is still pending.
C28_TimeoutResendsWindow ==
    [][(SendPollTimeout /\ s_pc' = "run") =>
          \A b \in PendingSent :
              \E i \in 1..Len(s_log') : s_log'[i].block_number = b]_vars

\* C29: a pending block is not starved by a pending block that was sent
\* after it: while a pending block has not been retransmitted at all, no
\* poll retransmits for a second time a pending block that was sent after
\* it.
C29_OlderBlockNotStarved ==
    [][(SendPollTimeout \/ SendPollAck) =>
          \A b, c \in PendingSent :
              (b < c /\ c \in resent /\ b \notin resent) =>
                  ~\E i \in 1..Len(s_log') : s_log'[i] \in data_sent
                                                /\ s_log'[i].block_number = c]_vars

\* C30: a poll of the send engine that takes in an ACK(b) with b below the
\* lowest pending block puts the blocks b+1 .. window_lo-1 back into the
\* pending set and sends those of them again that fit into a window starting
\* at b+1.
C30_LateAckRewinds ==
    [][(SendPollAck /\ window_size >= 1 /\ s_event'.block_number < window_lo) =>
          \A i \in (s_event'.block_number + 1)..(window_lo - 1) :
              /\ i \in blocks_pending_acks'
              /\ i < s_event'.block_number + 1 + window_size =>
                    \E k \in 1..Len(s_log') : s_log'[k].type = "DATA"
                                               /\ s_log'[k].block_number = i]_vars

\* The end of the window: the lowest block that has not been sent.
window_hi == next_to_send

\* C31: a poll of a send engine that was given a window of more than one
\* block (it is not in stop-and-wait) and takes in an ACK(b) for a block of
\* the window doubles the window size, up to 256, when b + 1 is the end of
\* the window, and halves it, down to 1, otherwise.
C31_WindowAdapts ==
    [][(SendPollAck /\ window_size > 1
            /\ s_event'.block_number \in window_lo..(window_hi - 1)) =>
          window_size' = IF s_event'.block_number + 1 = window_hi
                         THEN Min(window_size * 2, 256)
                         ELSE Max(window_size \div 2, 1)]_vars

\* C32: after the receiver has handled DATA blocks, in any order and with
\* duplicates, highest_block holds the largest block index received so far;
\* it is None only while no block was received.
C32_HighestBlockIsMax ==
    (r_pc = "run" /\ received # {}) =>
        /\ highest_block # {}
        /\ Unwrap(highest_block) \in received
        /\ \A b \in received : b <= Unwrap(highest_block)

\* C33: handling DATA(b, payload) after the first DATA leaves the destination
\* file at the larger of its current length and b*512 + len(payload): the
\* file is resized only when the block ends beyond the current length, to
\* exactly that end, and its length never decreases.
C33_ResizeOnlyGrows ==
    [][(RecvPollData /\ highest_block # {} /\ r_pc' = "run") =>
          file_map'.len = Max(file_map.len,
                              MAX_DATA_LEN * r_event'.block_number + r_event'.data_len)]_vars

\* C34: when the termination condition holds, the poll of the receiver sends
\* its final ACKs with the index of the short DATA block that ends the
\* transfer and returns Ready, and a receiver that is Ready sends nothing.
C34_FinalAcksCarryFinalBlock ==
    [][/\ RecvPollReady =>
            /\ r_pc' = "ready"
            /\ ack_kind' = "final"
            /\ \E d \in data_sent : /\ d.data_len < MAX_DATA_LEN
                                    /\ ack_last' = {d.block_number}
       /\ r_pc = "ready" => to_sender' = to_sender]_vars

(***************************************************************************)
(* TwoClientSpec: the example server has accepted the read request of one  *)
(* client and its send engine runs on the server's socket; the read        *)
(* request of a second client reaches that socket during the transfer.     *)
(* The loop of the server goes on when the engine has returned.            *)
(***************************************************************************)
\* The second client's read request for "a", in octet mode.
SecondRequests == {[from |-> "other", bytes |-> ValidRRQ]}

\* The first request was handed to handle_read_request: the engine of that
\* transfer is about to be constructed.
TwoClientInit ==
    /\ file_len \in FileLens \ {0}
    /\ InitEngines
    /\ InitCodec
    /\ InitLarge
    /\ window_size \in 1..MaxWindow
    /\ role = "server"
    /\ srv_pc = "loop"
    /\ srv_queue = <<>>
    /\ srv_served = 1
    /\ srv_event = "served"

\* The second client's request becomes the oldest datagram of the socket.
SecondRequestArrives ==
    /\ s_pc = "run"
    /\ s_sock = {}
    /\ srv_served = 1
    /\ \E d \in SecondRequests : s_sock' = {d}
    /\ UNCHANGED <<s_pc, file_len, window_size, role, num_blocks, blocks_pending_acks,
                   next_to_send, timeout_pq, send_times, timeouts>>
    /\ UNCHANGED <<rvars, nvars, shist, rhist>>
    /\ UNCHANGED <<cvars, lvars, srvvars, fvars, tvars, ivars>>

\* The engine has returned and the loop of the server, main.rs:102-122,
\* finds the request: Header::peek decodes it, Header::recv, expecting the
\* datagram's own sender, takes it out of the socket, and a read request
\* is handed to handle_read_request.
ServerResume ==
    /\ s_pc \in {"ready", "err"}
    /\ srv_pc = "loop"
    /\ s_sock # {}
    /\ LET peeked == PeekHeader(Unwrap(s_sock).bytes, debug_assertions)
       IN /\ peeked.tag = "Ok"
          /\ peeked.header.kind = "Read"
    /\ s_sock' = {}
    /\ srv_served' = srv_served + 1
    /\ srv_event' = "served"
    /\ UNCHANGED <<srv_pc, srv_queue>>
    /\ UNCHANGED <<s_pc, file_len, window_size, role, num_blocks, blocks_pending_acks,
                   next_to_send, timeout_pq, send_times, timeouts>>
    /\ UNCHANGED <<rvars, nvars, shist, rhist>>
    /\ UNCHANGED <<cvars, lvars, fvars, tvars, ivars>>

TwoClientNext ==
    \/ SendNewServer
    \/ SendPollReady
    \/ SendPollAck
    \/ SendPollError
    \/ SendPollTimeout
    \/ SendPollOther
    \/ RecvNew
    \/ RecvPollReady
    \/ RecvPollTotalTimeout
    \/ RecvPollData
    \/ RecvPollIgnored
    \/ RecvPollTimeout
    \/ SecondRequestArrives
    \/ ServerResume

TwoClientSpec == TwoClientInit /\ [][TwoClientNext]_vars

\* C35: a read request of a second client that reaches the server's socket
\* during a transfer does not stall or change the transfer: the poll of the
\* engine that finds it leaves the engine running with its state as it was,
\* and the request no longer stands before the datagrams of the engine's
\* own client, whose ACKs the next reads return.
C35_SecondRequestHarmless ==
    [][(SendPollOther /\ s_sock \subseteq SecondRequests) =>
          /\ s_pc' = "run"
          /\ blocks_pending_acks' = blocks_pending_acks
          /\ s_sock' = {}]_vars

(***************************************************************************)
(* FailSpec: the receiver of RecvSpec on a host whose sends start to fail  *)
(* during the transfer.                                                    *)
(***************************************************************************)
FailInit == RecvInit

\* From now on a send_to of the receiver's socket may return an error.
SendsStartFailing ==
    /\ r_pc = "run"
    /\ ~send_fails
    /\ send_fails' = TRUE
    /\ UNCHANGED error_sends
    /\ UNCHANGED <<svars, rvars, nvars, shist, rhist>>
    /\ UNCHANGED <<cvars, lvars, srvvars, tvars, ivars>>

FailNext ==
    \/ PeerData
    \/ RecvNew
    \/ RecvPollReady
    \/ RecvPollTotalTimeout
    \/ RecvPollData
    \/ RecvPollTimeout
    \/ SendsStartFailing

FailSpec == FailInit /\ [][FailNext]_vars

\* C36: a poll of the receiver that meets a terminal failure - the total
\* timeout, one read timeout more than MAX_ATTEMPTS in a row, or an I/O error
\* of handle_data - ends with Err and not with Ready; it has made at most
\* MAX_ATTEMPTS sends of ERROR("Giving up"), none after one that succeeded,
\* and, when it made any, the error it returns is the one of the failure.
C36_FailSendsErrorThenErr ==
    [][(\/ RecvPollTotalTimeout
        \/ RecvPollTimeout /\ error_count + 1 > MAX_ATTEMPTS
        \/ RecvPollData /\ r_err' # {}) =>
          /\ r_pc' = "err"
          /\ Len(error_sends') <= MAX_ATTEMPTS
          /\ \A i \in 1..(Len(error_sends') - 1) : ~error_sends'[i]
          /\ (ErrorPkt("Giving up") \in to_sender')
                = (\E i \in DOMAIN error_sends' : error_sends'[i])
          /\ \E e \in r_err' :
                \/ error_sends' = <<>> /\ e \in SendErrors
                \/ /\ error_sends' # <<>>
                   /\ r_event'.type = "TOTAL_TIMEOUT" =>
                         e = IoError("TimedOut", <<"TFTP connection appears to be dead.">>)
                   /\ r_event'.type = "TIMEOUT" => e.kind \in ReadTimeoutKinds
                   /\ r_event'.type = "DATA" => e.kind = "InvalidInput"]_vars

\* C36: the fifth read timeout in a row made the receiver give up; its
\* first two sends of ERROR failed and the third one succeeded.
C36_Witness ==
    /\ r_pc = "err"
    /\ r_event.type = "TIMEOUT"
    /\ error_sends = <<FALSE, FALSE, TRUE>>
    /\ ErrorPkt("Giving up") \in to_sender
    /\ TimedOut(r_err)

(***************************************************************************)
(* AnyPeerSpec: ReceiveFile facing a peer that sends any DATA packets: any *)
(* block number up to MaxAnyBlock with any payload length, in any order,   *)
(* the same block with different lengths included.                         *)
(***************************************************************************)
MaxAnyBlock == 1
\* Payload lengths: empty, one byte, a whole block.
AnyLens == {0, 1, MAX_DATA_LEN}

AnyPeerData ==
    /\ \E b \in 0..MaxAnyBlock, n \in AnyLens :
          to_receiver' = to_receiver \cup {DataPkt(b, n)}
    /\ UNCHANGED <<to_sender, svars, rvars, shist, rhist>>
    /\ UNCHANGED <<cvars, lvars, srvvars, fvars, tvars, ivars>>

AnyPeerInit == RecvInit /\ file_len = 0

AnyPeerNext ==
    \/ AnyPeerData
    \/ RecvNew
    \/ RecvPollReady
    \/ RecvPollTotalTimeout
    \/ RecvPollData
    \/ RecvPollTimeout

AnyPeerSpec == AnyPeerInit /\ [][AnyPeerNext]_vars

\* C37: for every DATA block the receiver handles, whatever its block number,
\* its payload length and the blocks handled before it, the bytes it writes,
\* [b*512, b*512 + len), are inside the file mapping: the copy never runs
\* out of the mapping.
C37_WriteInsideMapping ==
    [][RecvPollData =>
          /\ r_pc' # "panic"
          /\ r_err' = {} =>
                MAX_DATA_LEN * r_event'.block_number + r_event'.data_len <= file_map'.len]_vars

\* C37: the whole block 1 was written, after block 0, into the last 512
\* bytes of a mapping of two blocks.
C37_Witness ==
    /\ r_pc = "run"
    /\ r_event.type = "DATA"
    /\ r_event.block_number = 1
    /\ r_event.data_len = MAX_DATA_LEN
    /\ highest_block = {1}
    /\ file_map.len = 2 * MAX_DATA_LEN
    /\ file_map.data[1] = MAX_DATA_LEN
    /\ 0 \in written

(***************************************************************************)
(* RawDataSpec: a datagram with the opcode of DATA, of any length, reaches *)
(* a socket and Header::recv decodes it.                                   *)
(***************************************************************************)
\* Bound: the block numbers of the datagrams.
MaxRawBlock == 2
\* Payload lengths up to a block, just above a block, and up to and just
\* above what the buffer of Header::recv holds after the 4 bytes of header.
RawPayloadLens ==
    {0, 1, MAX_DATA_LEN - 1, MAX_DATA_LEN, MAX_DATA_LEN + 1,
     BUFF_ALLOCATION_SIZE - 5, BUFF_ALLOCATION_SIZE - 4, BUFF_ALLOCATION_SIZE - 3}

RawData ==
    {<<0, OPCODE_DATA, 0, bn>> \o [i \in 1..n |-> fill] :
        bn \in 0..MaxRawBlock, n \in RawPayloadLens, fill \in {7, 255}}

\* Header::recv, header.rs:36-42: peek_from and recv_from fill a buffer of
\* BUFF_ALLOCATION_SIZE bytes, and the bytes read are the first bytes_read
\* bytes of it.
DataArrive ==
    /\ c_pc = "header"
    /\ \E d \in RawData : c_raw' = SubSeq(d, 1, Min(Len(d), BUFF_ALLOCATION_SIZE))
    /\ c_pc' = "raw"
    /\ UNCHANGED <<c_header, c_decoded, debug_assertions>>
    /\ UNCHANGED <<svars, rvars, nvars, shist, rhist, lvars, srvvars, fvars, tvars, ivars>>

RawDataInit == RequestInit

RawDataNext ==
    \/ DataArrive
    \/ Decode

RawDataSpec == RawDataInit /\ [][RawDataNext]_vars

\* C38: every DATA packet the decoder accepts has a payload length of at
\* most 512 bytes: a datagram of more than 516 bytes is rejected, or its
\* payload is cut to 512 bytes.
C38_DecodedPayloadAtMost512 ==
    (c_pc = "decoded" /\ c_decoded.tag = "Ok" /\ c_decoded.header.kind = "Data") =>
        c_decoded.header.data_len <= MAX_DATA_LEN

(***************************************************************************)
(* EwmaSpec: the two estimates are updated with samples, starting from     *)
(* one second each.                                                        *)
(***************************************************************************)
\* Bound: the number of updates.
MaxSamples == 4
\* Samples: 17 ns, 1 ms, 100 ms and 140 ms.
Samples == {17, 1000000, 100000000, 140000000}

\* Duration::div(16): the nanoseconds are rounded down.
div16(d) == d \div 16
\* d.mul(15).div(16), as d - ceil(d / 16): the same number, computed without
\* the product, which can exceed the integers of the model checker.
mul15_div16(d) == d - (d + 15) \div 16

\* SendFile::update_average_rtt, send.rs:296-302
update_average_rtt(avg, rtt) == div16(rtt) + mul15_div16(avg)

\* ReceiveFile::update_average, receive.rs:79-84: packet_time is assigned
\* elapsed.mul(15) and then averaged with elapsed.
update_average(time, gap) ==
    LET overwritten == gap * 15
    IN div16(gap) + mul15_div16(overwritten)

UpdateAverageRtt ==
    /\ samples < MaxSamples
    /\ \E rtt \in Samples :
          /\ elapsed' = rtt
          /\ average_rtt' = update_average_rtt(average_rtt, rtt)
    /\ samples' = samples + 1
    /\ UNCHANGED packet_time
    /\ UNCHANGED <<svars, rvars, nvars, shist, rhist, cvars, lvars, srvvars, fvars, ivars>>

UpdateAverage ==
    /\ samples < MaxSamples
    /\ \E gap \in Samples :
          /\ elapsed' = gap
          /\ packet_time' = update_average(packet_time, gap)
    /\ samples' = samples + 1
    /\ UNCHANGED average_rtt
    /\ UNCHANGED <<svars, rvars, nvars, shist, rhist, cvars, lvars, srvvars, fvars, ivars>>

EwmaInit == RecvInit /\ file_len = 1

EwmaNext ==
    \/ UpdateAverageRtt
    \/ UpdateAverage

EwmaSpec == EwmaInit /\ [][EwmaNext]_vars

\* C39: starting from one second, a sample rtt makes the sender's
\* average_rtt rtt/16 + average_rtt*15/16 and a gap makes the receiver's
\* packet_time gap/16 + packet_time*15/16, so that each new estimate lies
\* between the estimate before it and the sample.
C39_EstimatesAverage ==
    [][/\ UpdateAverageRtt =>
            /\ average_rtt' = div16(elapsed') + mul15_div16(average_rtt)
            /\ average_rtt' >= Min(average_rtt, elapsed')
            /\ average_rtt' <= Max(average_rtt, elapsed')
       /\ UpdateAverage =>
            /\ packet_time' = div16(elapsed') + mul15_div16(packet_time)
            /\ packet_time' >= Min(packet_time, elapsed')
            /\ packet_time' <= Max(packet_time, elapsed')]_vars

(***************************************************************************)
(* ReceiveSpec: the receiver of RecvSpec, started with ReceiveFile::receive *)
(***************************************************************************)
ReceiveInit == RecvInit

ReceiveNext ==
    \/ PeerData
    \/ RecvReceive
    \/ RecvPollReady
    \/ RecvPollTotalTimeout
    \/ RecvPollData
    \/ RecvPollTimeout

ReceiveSpec == ReceiveInit /\ [][ReceiveNext]_vars

\* C40: a receive engine started through ReceiveFile::receive has sent
\* ACK(0) exactly once when it begins to handle DATA.
C40_ReceiveAcksOnce ==
    (r_pc = "run" /\ received = {}) => init_acks = 1

====
